---- MODULE Spec2Model ----
(***************************************************************************)
(* A model of the light controller host program (lcfunc.py and             *)
(* light_controller_parser.py): the protocol compilation pipeline (pulse   *)
(* resolution, timeline build, time correction, pattern compression), the  *)
(* run of a protocol against the device, and the calibration manager.      *)
(*                                                                         *)
(* The pure stages are checked under specifications of their own, whose    *)
(* initial states draw the stage's input from bounded sets and whose       *)
(* actions apply the stage:                                                *)
(*   SpecCompress  FindRepeatedPatterns                                    *)
(*   SpecCorrect   CorrectTime_df, CorrectTime_dict,                       *)
(*                 ApplyCalibrationToTxtCommands                           *)
(*   SpecPulse     NormalizePulseParameters, ConvertTimeToMillisecond      *)
(* The stateful parts are state machines:                                  *)
(*   Spec          a run of main(): setup_serial, parse_and_execute, close *)
(*   SpecCalib     auto_calibrate_arduino with the calibration database    *)
(* Every specification leaves the variables of the other parts idle.       *)
(***************************************************************************)
EXTENDS Integers, Sequences, FiniteSets, TLC

\* ---- PatternCompressor state (FindRepeatedPatterns) ----
VARIABLES df_ms, pattern_length, compressed, cpc, cmd_lines, recompressed, cstep

compVars == <<df_ms, pattern_length, compressed, cpc, cmd_lines, recompressed, cstep>>

\* ---- TimeCorrector state (CorrectTime, ApplyCalibrationToTxtCommands) ----
VARIABLES dataIn, corr_factor, corrected, tpc

corrVars == <<dataIn, corr_factor, corrected, tpc>>

\* ---- PulseResolver / timeline build state (ConvertTimeToMillisecond) ----
VARIABLES protocol_df, ch_units, resolved, converted, ppc

pulseVars == <<protocol_df, ch_units, resolved, converted, ppc>>

\* ---- the run of main(): LightControllerParser against the device ----
VARIABLES parser, protocol_file, arduino, serial_out, feedback, send_idx,
          pc, raised, raised_at, warned, generated

runVars == <<parser, protocol_file, arduino, serial_out, feedback, send_idx,
             pc, raised, raised_at, warned, generated>>

\* ---- the calibration manager (auto_calibrate_arduino) ----
VARIABLES db, db_before, calib_call, existing_calib, sample_i, measurements,
          timed_out, fitted, returned, calpc, db_file, db_file_before

calibVars == <<db, db_before, calib_call, existing_calib, sample_i, measurements,
               timed_out, fitted, returned, calpc, db_file, db_file_before>>

\* ---- one row of NormalizePulseParameters ----
VARIABLES row_in, row_out, rowpc

rowVars == <<row_in, row_out, rowpc>>

\* ---- one emitted integer, from its source value to the command line ----
VARIABLES emit_in, emitted, emitpc

emitVars == <<emit_in, emitted, emitpc>>

\* ---- start times: from the start_time sheet or START_TIME line to the
\* ---- wait commands
VARIABLES st_src, st_read, st_now, st_wait, stpc

startVars == <<st_src, st_read, st_now, st_wait, stpc>>

\* ---- the calls of auto_calibrate_arduino on one serial connection ----
VARIABLES call_pc, call_i, ser_written

flightVars == <<call_pc, call_i, ser_written>>

\* ---- UnitNormalizer state (NormalizeSynonyms, ConvertPulseTimeUnits) ----
VARIABLES unit_df, renamed, unit_out, upc

unitVars == <<unit_df, renamed, unit_out, upc>>

\* ---- a preview: LightControllerParser.preview_only ----
VARIABLES pv_parser, pv_file, pv_factor, pv_raised, pvpc

previewVars == <<pv_parser, pv_file, pv_factor, pv_raised, pvpc>>

\* ---- one call of LightControllerParser.send_commands ----
VARIABLES snd_parser, snd_idx, snd_feedback, snd_result, sndpc

sendVars == <<snd_parser, snd_idx, snd_feedback, snd_result, sndpc>>

\* ---- one call of SendGreeting: the wait for the device's reply ----
VARIABLES g_arduino, g_expected, g_elapsed, g_turn, g_result, gpc

greetVars == <<g_arduino, g_expected, g_elapsed, g_turn, g_result, gpc>>

(***************************************************************************)
(* Helpers                                                                 *)
(***************************************************************************)
Min(a, b) == IF a <= b THEN a ELSE b

Max(a, b) == IF a >= b THEN a ELSE b

Range(s) == { s[k] : k \in 1..Len(s) }

SeqsUpTo(S, n) == UNION { [1..k -> S] : k \in 0..n }

\* Python's s[a:b] on a list, with 0-based a and exclusive b cut at the end.
Slice(s, a, b) == SubSeq(s, a + 1, Min(b, Len(s)))

None == "None"

(***************************************************************************)
(* Rationals n/d with d > 0 stand for the floats the program computes      *)
(* with; the values the model draws are chosen so that the float result    *)
(* and the exact result truncate to the same integer.                      *)
(***************************************************************************)
Rat(n, d) == [n |-> n, d |-> d]

\* int(x) of Python: truncation towards zero of a / b, b > 0.
IntDiv(a, b) == IF a >= 0 THEN a \div b ELSE -((-a) \div b)

\* floor(a / b), b > 0.
FloorDiv(a, b) == a \div b

(***************************************************************************)
(* PatternCompressor: FindRepeatedPatterns                                 *)
(* A channel's timeline is the list `combined` of tuples <<status, time>>  *)
(* or <<status, time, period, pulse_width>>; a table is the sequence of    *)
(* its channels' lists, CH1 first.                                         *)
(***************************************************************************)
MaxLen == 16

MaxPulseLen == 5

MaxChLen == 3

PatternLengths == {1, 2, 4, 8}

PlainEntries == { <<1, 1000>>, <<0, 1000>> }

PulseEntries == { <<1, 1000, 100, 10>>, <<0, 0, 0, 0>>, <<1, 1000, 100, 0>>, <<0, 1000, 0, 0>> }

\* A plausible slip: the window that ends the run is counted too.
RECURSIVE InnerLoopMiscount(_, _, _, _, _)
InnerLoopMiscount(combined, current, L, count, j) ==
    IF j + L <= Len(combined) /\ Slice(combined, j, j + L) = current
    THEN InnerLoopMiscount(combined, current, L, count + 1, j + L)
    ELSE <<count + 1, j>>

\* The inner while loop: count the consecutive repeats of current from j on.
RECURSIVE InnerLoop(_, _, _, _, _)
InnerLoop(combined, current, L, count, j) ==
    IF j + L <= Len(combined) /\ Slice(combined, j, j + L) = current
    THEN InnerLoop(combined, current, L, count + 1, j + L)
    ELSE <<count, j>>

\* A plausible slip: the outer loop steps one window, not over the repeats.
RECURSIVE OuterLoopOneWindow(_, _, _, _)
OuterLoopOneWindow(combined, L, i, patterns) ==
    IF i < Len(combined)
    THEN LET current == Slice(combined, i, i + L)
             r == InnerLoop(combined, current, L, 1, i + L)
         IN OuterLoopOneWindow(combined, L, i + L,
                Append(patterns, [pattern |-> current, repeats |-> r[1]]))
    ELSE patterns

\* The outer while loop: i = j after each pattern.
RECURSIVE OuterLoop(_, _, _, _)
OuterLoop(combined, L, i, patterns) ==
    IF i < Len(combined)
    THEN LET current == Slice(combined, i, i + L)
             r == InnerLoop(combined, current, L, 1, i + L)
         IN OuterLoop(combined, L, r[2],
                Append(patterns, [pattern |-> current, repeats |-> r[1]]))
    ELSE patterns

CompressChannelOneWindow(combined, L) == OuterLoopOneWindow(combined, L, 0, <<>>)

CompressChannel(combined, L) == OuterLoop(combined, L, 0, <<>>)

\* The validation of a channel with period and pulse_width columns.
PulseDataValid(combined) ==
    \A k \in 1..Len(combined) :
        Len(combined[k]) = 4 =>
            ~ \/ (combined[k][3] > 0 /\ combined[k][4] = 0)
              \/ (combined[k][3] = 0 /\ combined[k][4] > 0)

\* err: a ValueError was raised; patterns[n]: the compressed list of CH n.
FindRepeatedPatterns(df, L) ==
    IF \A n \in 1..Len(df) : PulseDataValid(df[n])
    THEN [err |-> FALSE,
          patterns |-> [n \in 1..Len(df) |-> CompressChannel(df[n], L)]]
    ELSE [err |-> TRUE, patterns |-> <<>>]

RECURSIVE Repeat(_, _)
Repeat(p, n) == IF n = 0 THEN <<>> ELSE p \o Repeat(p, n - 1)

\* "Expand": each pattern repeated `repeats` times, concatenated in order.
RECURSIVE Expand(_)
Expand(ps) ==
    IF ps = <<>> THEN <<>>
    ELSE Repeat(ps[1].pattern, ps[1].repeats) \o Expand(Tail(ps))

CompressTables ==
    { <<t>> : t \in SeqsUpTo(PlainEntries, MaxLen) \cup SeqsUpTo(PulseEntries, MaxPulseLen) }
    \cup UNION { { <<t1, t2>> : t1 \in [1..k -> PulseEntries], t2 \in [1..k -> PlainEntries] }
                 : k \in 0..MaxChLen }

\* the tables whose commands are generated: as CompressTables, with shorter
\* lists
MaxCmdLen == 12

CommandTables ==
    { <<t>> : t \in SeqsUpTo(PlainEntries, MaxCmdLen) \cup SeqsUpTo(PulseEntries, MaxPulseLen) }
    \cup UNION { { <<t1, t2>> : t1 \in [1..k -> PulseEntries], t2 \in [1..k -> PlainEntries] }
                 : k \in 0..MaxChLen }

CompressIdle ==
    /\ df_ms = <<>>
    /\ pattern_length = 0
    /\ compressed = None
    /\ cpc = "idle"
    /\ cmd_lines = <<>>
    /\ recompressed = None
    /\ cstep = "idle"

(***************************************************************************)
(* TimeCorrector: CorrectTime_df, CorrectTime_dict and                     *)
(* ApplyCalibrationToTxtCommands.  The factor is the rational n/d.         *)
(***************************************************************************)
MaxCorrLen == 2

Factors == { Rat(1, 1), Rat(1001, 1000), Rat(2, 1), Rat(1, 2) }

\* int(v / calib_factor)
Corrected(v, c) == IntDiv(v * c.d, c.n)

\* A plausible slip: multiplying by the factor.
CorrectedTimes(v, c) == IntDiv(v * c.n, c.d)

\* Only the columns named *_time_ms are divided; every column is cast to int.
CorrectTime_df(df, c) ==
    [n \in 1..Len(df) |->
        [k \in 1..Len(df[n]) |->
            [f \in 1..Len(df[n][k]) |->
                IF f = 2 THEN Corrected(df[n][k][f], c) ELSE df[n][k][f]]]]

\* A countdown map, keyed by the channel's number.
CorrectTime_dict(remaining_time, c) ==
    [ch \in DOMAIN remaining_time |-> Corrected(remaining_time[ch], c)]

\* a command line without a PULSE clause
NoClause == <<>>

\* A text command: the fields of a PATTERN line; pulse is the list of
\* <<period, pw>> items of its PULSE clause, empty without the clause.
TxtCommand(p, ch, st, tm, rep, pulse) ==
    [pattern |-> p, ch |-> ch, status |-> st, time_ms |-> tm, repeats |-> rep,
     pulse |-> pulse]

ApplyCalibrationToTxtCommand(cmd, c) ==
    [cmd EXCEPT
        !.time_ms = [k \in 1..Len(cmd.time_ms) |-> Corrected(cmd.time_ms[k], c)],
        !.pulse = IF cmd.pulse = NoClause THEN NoClause
                  ELSE [k \in 1..Len(cmd.pulse) |->
                           <<Corrected(cmd.pulse[k][1], c), Corrected(cmd.pulse[k][2], c)>>]]

ApplyCalibrationToTxtCommands(cmds, c) ==
    [k \in 1..Len(cmds) |-> ApplyCalibrationToTxtCommand(cmds[k], c)]

CorrEntries ==
    { <<s, t, p[1], p[2]>> : s \in {1}, t \in {0, 1000, 60000}, p \in { <<0, 0>>, <<1000, 100>> } }

CorrCountdowns == {0, 5000, 60000}

CorrTxtCommands ==
    { TxtCommand(1, 1, <<1, 0>>, <<1000, 60000>>, 2, NoClause),
      TxtCommand(1, 2, <<1>>, <<60000>>, 1, << <<1000, 100>> >>),
      TxtCommand(2, 1, <<1, 0>>, <<5000, 0>>, 3, << <<1000, 100>>, <<0, 0>> >>) }

CorrInput(kind, df, dict, txt) == [kind |-> kind, df |-> df, dict |-> dict, txt |-> txt]

CorrInputs ==
    { CorrInput("df", <<t>>, <<>>, <<>>) : t \in SeqsUpTo(CorrEntries, MaxCorrLen) }
    \cup { CorrInput("dict", <<>>, d, <<>>) : d \in [1..2 -> CorrCountdowns] }
    \cup { CorrInput("txt", <<>>, <<>>, s) : s \in SeqsUpTo(CorrTxtCommands, MaxCorrLen) }

CorrIdle ==
    /\ dataIn = None
    /\ corr_factor = None
    /\ corrected = None
    /\ tpc = "idle"

(***************************************************************************)
(* UnitNormalizer, PulseResolver and timeline build:                       *)
(* NormalizeSynonyms, ConvertPulseTimeUnits, NormalizePulseParameters and  *)
(* ConvertTimeToMillisecond.                                               *)
(* A table is a record [err, cols, rows]: cols is the list of column       *)
(* names, a column name CH{ch}_{name}_{unit} being the record              *)
(* [ch, name, unit] (unit "" when there is no suffix, ch 0 for Sections);  *)
(* rows[r][k] is the value of column k in row r, a rational or NaN.  err   *)
(* is None, or the exception the stage raised.                             *)
(***************************************************************************)
NaN == Rat(0, 0)

IsNaN(v) == v.d = 0

Num(v) == Rat(v, 1)

\* 0 if pd.isna(v) else v
NaNToZero(v) == IF IsNaN(v) THEN Num(0) ELSE v

\* a > b for two numbers
Gt(a, b) == a.n * b.d > b.n * a.d

\* int(v), astype(int) on one value
ToInt(v) == IntDiv(v.n, v.d)

Column(ch, name, unit) == [ch |-> ch, name |-> name, unit |-> unit]

Table(cols, rows) == [err |-> None, cols |-> cols, rows |-> rows]

Raise(e) == [err |-> e, cols |-> <<>>, rows |-> <<>>]

HasCol(cols, c) == \E k \in 1..Len(cols) : cols[k] = c

\* position of the first column named c
ColIdx(cols, c) == CHOOSE k \in 1..Len(cols) : cols[k] = c /\ \A j \in 1..(k - 1) : cols[j] # c

\* df[c] = v for a new column c: the column is appended last
AppendCol(df, c, v) ==
    Table(Append(df.cols, c), [r \in 1..Len(df.rows) |-> Append(df.rows[r], v)])

RemoveAt(s, k) == SubSeq(s, 1, k - 1) \o SubSeq(s, k + 1, Len(s))

\* df.drop(columns=[c])
DropCol(df, c) ==
    LET k == ColIdx(df.cols, c)
    IN Table(RemoveAt(df.cols, k), [r \in 1..Len(df.rows) |-> RemoveAt(df.rows[r], k)])

\* the synonym table; None for a name that is no pulse parameter
synonym_map(name) ==
    CASE name \in {"period", "T", "cycle_time"} -> "period"
      [] name \in {"pulse_width", "PW", "pw", "on_time"} -> "pulse_width"
      [] name \in {"duty_cycle", "DC", "duty"} -> "duty_cycle"
      [] name \in {"frequency", "freq", "Hz"} -> "frequency"
      [] OTHER -> None

\* the suffixes NormalizeSynonyms takes for a time unit
time_units ==
    {"ms", "msec", "millisecond", "milliseconds", "s", "sec", "second", "seconds",
     "m", "min", "minute", "minutes", "h", "hr", "hour", "hours"}

\* A suffix that is no time unit is part of the parameter name, and no
\* synonym has such a name: the column is kept.
NormalizeSynonyms(df) ==
    LET parsed(k) == df.cols[k].ch > 0 /\ df.cols[k].unit \in time_units \cup {""}
    IN IF \E k \in 1..Len(df.cols) : parsed(k) /\ df.cols[k].name = "t"
       THEN Raise("ValueError")
       ELSE Table([k \in 1..Len(df.cols) |->
                      IF parsed(k) /\ synonym_map(df.cols[k].name) # None
                      THEN [df.cols[k] EXCEPT !.name = synonym_map(df.cols[k].name)]
                      ELSE df.cols[k]],
                  df.rows)

\* A plausible slip: the suffix m is taken for a spelling of ms.
unit_multipliersMilli(u) ==
    CASE u \in {"ms", "msec", "millisecond", "milliseconds", "m"} -> 1
      [] u \in {"s", "sec", "second", "seconds"} -> 1000
      [] u \in {"min", "minute", "minutes"} -> 60000
      [] u \in {"h", "hr", "hour", "hours"} -> 3600000
      [] OTHER -> 0

\* 0 for a suffix that is no time unit
unit_multipliers(u) ==
    CASE u \in {"ms", "msec", "millisecond", "milliseconds"} -> 1
      [] u \in {"s", "sec", "second", "seconds"} -> 1000
      [] u \in {"m", "min", "minute", "minutes"} -> 60000
      [] u \in {"h", "hr", "hour", "hours"} -> 3600000
      [] OTHER -> 0

\* v * multiplier
Scale(v, mult) == Rat(v.n * mult, v.d)

ConvertPulseTimeUnits(df) ==
    LET conv(k) == /\ df.cols[k].ch > 0
                   /\ unit_multipliers(df.cols[k].unit) # 0
                   /\ df.cols[k].name \in {"period", "pulse_width"}
    IN Table([k \in 1..Len(df.cols) |->
                 IF conv(k) THEN [df.cols[k] EXCEPT !.unit = ""] ELSE df.cols[k]],
             [r \in 1..Len(df.rows) |->
                 [k \in 1..Len(df.cols) |->
                     IF conv(k) THEN Scale(df.rows[r][k], unit_multipliers(df.cols[k].unit))
                     ELSE df.rows[r][k]]])

\* dc as a percentage: a value in (0, 1] is a fraction and is scaled by 100
DutyPercent(dc) == IF Gt(dc, Num(0)) /\ ~Gt(dc, Num(1)) THEN Scale(dc, 100) ELSE dc

\* The body of the row loop: err when the row raises ValueError, else the
\* integers written to the period and pulse_width columns.
NormalizePulseRow(freq0, period0, pw0, dc0) ==
    LET freq == NaNToZero(freq0)
        period == NaNToZero(period0)
        pw == NaNToZero(pw0)
        dc == DutyPercent(NaNToZero(dc0))
        pos(v) == Gt(v, Num(0))
        zero(v) == v.n = 0
        period_calculated == IntDiv(1000 * freq.d, freq.n)
        ok(p, w) == [err |-> FALSE, period |-> p, pulse_width |-> w]
        bad == [err |-> TRUE, period |-> 0, pulse_width |-> 0]
    IN IF Gt(dc, Num(100)) THEN bad
       ELSE IF pos(freq) /\ pos(pw)
            THEN IF Gt(pw, Num(period_calculated)) THEN bad
                 ELSE ok(period_calculated, ToInt(pw))
       ELSE IF pos(freq) /\ pos(dc)
            THEN ok(period_calculated, IntDiv(period_calculated * dc.n, dc.d * 100))
       ELSE IF pos(period) /\ pos(pw)
            THEN IF Gt(pw, period) THEN bad ELSE ok(ToInt(period), ToInt(pw))
       ELSE IF pos(period) /\ pos(dc)
            THEN ok(ToInt(period), IntDiv(period.n * dc.n, period.d * dc.d * 100))
       ELSE IF \/ (pos(freq) /\ zero(dc) /\ zero(pw))
               \/ (pos(period) /\ zero(dc) /\ zero(pw))
            THEN bad
       ELSE IF \/ (pos(pw) /\ zero(freq) /\ zero(period))
               \/ (pos(dc) /\ zero(freq) /\ zero(period))
            THEN bad
       ELSE ok(0, 0)

\* The body of the channel loop.
NormalizeChannel(df, ch) ==
    LET freq_col == Column(ch, "frequency", "")
        period_col == Column(ch, "period", "")
        pw_col == Column(ch, "pulse_width", "")
        dc_col == Column(ch, "duty_cycle", "")
        has_freq == HasCol(df.cols, freq_col)
        has_period == HasCol(df.cols, period_col)
        has_pw == HasCol(df.cols, pw_col)
        has_dc == HasCol(df.cols, dc_col)
    IN IF ~(has_freq \/ has_period \/ has_pw \/ has_dc) THEN df
       ELSE LET df1 == IF has_period THEN df ELSE AppendCol(df, period_col, Num(0))
                df2 == IF has_pw THEN df1 ELSE AppendCol(df1, pw_col, Num(0))
                val(r, has, c) == IF has THEN df2.rows[r][ColIdx(df2.cols, c)] ELSE Num(0)
                res(r) == NormalizePulseRow(val(r, has_freq, freq_col), val(r, has_period, period_col),
                                            val(r, has_pw, pw_col), val(r, has_dc, dc_col))
                kp == ColIdx(df2.cols, period_col)
                kw == ColIdx(df2.cols, pw_col)
                df3 == Table(df2.cols,
                             [r \in 1..Len(df2.rows) |->
                                 [k \in 1..Len(df2.cols) |->
                                     IF k = kp THEN Num(res(r).period)
                                     ELSE IF k = kw THEN Num(res(r).pulse_width)
                                     ELSE df2.rows[r][k]]])
                df4 == IF has_freq THEN DropCol(df3, freq_col) ELSE df3
                df5 == IF has_dc THEN DropCol(df4, dc_col) ELSE df4
            IN IF \E r \in 1..Len(df2.rows) : res(r).err THEN Raise("ValueError") ELSE df5

\* the channels of the CH{n}_status columns, in column order
StatusChannels(cols) ==
    LET st == SelectSeq(cols, LAMBDA c : c.ch > 0 /\ c.name = "status" /\ c.unit = "")
    IN [k \in 1..Len(st) |-> st[k].ch]

RECURSIVE NormalizeChannels(_, _)
NormalizeChannels(df, chs) ==
    IF chs = <<>> \/ df.err # None THEN df
    ELSE NormalizeChannels(NormalizeChannel(df, Head(chs)), Tail(chs))

NormalizePulseParameters(df) == NormalizeChannels(df, StatusChannels(df.cols))

\* Steps 1 to 3 of ConvertTimeToMillisecond.
ResolvePulseColumns(protocol) ==
    LET a == NormalizeSynonyms(protocol)
    IN IF a.err # None THEN a ELSE NormalizePulseParameters(ConvertPulseTimeUnits(a))

\* the multiplier of a channel time unit; 0 for a unit that is not recognized
TimeMultiplier(u) ==
    CASE u = "sec" -> 1000
      [] u = "min" -> 60000
      [] u = "hr" -> 3600000
      [] u = "ms" -> 1
      [] OTHER -> 0

\* floor((2^32 - 1) / mult): v * mult > 2^32 - 1 exactly when v exceeds it.
\* The values the model holds are below 2^31, so that only a scaled value
\* can exceed 2^32 - 1, and the comparison is made before the product.
UInt32MaxDiv(mult) ==
    CASE mult = 1000 -> 4294967
      [] mult = 60000 -> 71582
      [] mult = 3600000 -> 1193

ScaleOverflows(v, mult) == ~IsNaN(v) /\ mult > 1 /\ ToInt(v) > UInt32MaxDiv(mult)

\* The rest of ConvertTimeToMillisecond: the time column of channel i is
\* taken to be the column at position i * expected_cols_per_channel + 2.
BuildTimeline(df, units) ==
    LET has_pulse_cols == \E k \in 1..Len(df.cols) : df.cols[k].name = "period"
        expected_cols_per_channel == IF has_pulse_cols THEN 4 ELSE 2
        time_col_idx(i) == (i - 1) * expected_cols_per_channel + 3
        isTime(k) == \E i \in 1..Len(units) : time_col_idx(i) = k
        mult(k) == TimeMultiplier(units[CHOOSE i \in 1..Len(units) : time_col_idx(i) = k])
        col_names == [k \in 1..Len(df.cols) |->
                         IF isTime(k) THEN Column(df.cols[k].ch, "time_ms", "") ELSE df.cols[k]]
        isInt(k) == /\ k > 1
                    /\ col_names[k].unit = ""
                    /\ col_names[k].name \in {"status", "time_ms", "pulse_width", "period"}
        fill(k, v) == IF isInt(k) THEN Num(ToInt(NaNToZero(v))) ELSE v
    IN IF \E i \in 1..Len(units) : time_col_idx(i) > Len(df.cols) THEN Raise("IndexError")
       ELSE IF \E i \in 1..Len(units) : TimeMultiplier(units[i]) = 0 THEN Raise("ValueError")
       ELSE IF \E j, k \in 1..Len(col_names) : j # k /\ col_names[j] = col_names[k]
            THEN Raise("AttributeError")
       ELSE IF \E r \in 1..Len(df.rows), k \in 1..Len(df.cols) :
                   isTime(k) /\ ScaleOverflows(df.rows[r][k], mult(k))
            THEN Raise("ValueError")
       ELSE Table(col_names,
                  [r \in 1..Len(df.rows) |->
                      [k \in 1..Len(df.cols) |->
                          fill(k, IF isTime(k) THEN Scale(df.rows[r][k], mult(k))
                                  ELSE df.rows[r][k])]])

ConvertTimeToMillisecond(protocol, units) ==
    LET a == ResolvePulseColumns(protocol)
    IN IF a.err # None THEN a ELSE BuildTimeline(a, units)

(***************************************************************************)
(* The protocol tables ConvertTimeToMillisecond is given: tables that      *)
(* ReadExcelFile and GetChannelInfo accept.  Every channel has a status    *)
(* and a time column and the same pulse columns; no column starts with an  *)
(* empty cell or has one in the middle (CheckEmptyDataInMiddle).           *)
(***************************************************************************)
MaxRows == 2

MaxChannels == 2

\* the pulse columns of a channel, as <<name, unit suffix>>
Layouts ==
    { <<>>,
      << <<"period", "">>, <<"pulse_width", "">> >>,
      << <<"period", "">>, <<"duty_cycle", "">> >>,
      << <<"frequency", "">>, <<"pulse_width", "">> >>,
      << <<"frequency", "">>, <<"duty_cycle", "">> >>,
      << <<"T", "s">>, <<"PW", "ms">> >> }

ChUnits == {"ms", "sec", "min", "hr"}

FirstValues(name) ==
    CASE name = "period" -> {Num(0), Num(5), Num(1000)}
      [] name = "pulse_width" -> {Num(0), Num(100), Num(2000)}
      [] name = "duty_cycle" -> {Num(0), Rat(1, 2), Num(1), Num(15), Num(50), Num(150)}
      [] name = "frequency" -> {Num(0), Num(1), Num(6), Rat(1, 2), Num(2000)}
      [] name = "T" -> {Num(0), Num(1), Num(2)}
      [] name = "PW" -> {Num(0), Num(100)}

OnValue(name) ==
    CASE name = "period" -> Num(2000)
      [] name = "pulse_width" -> Num(200)
      [] name = "duty_cycle" -> Num(50)
      [] name = "frequency" -> Rat(1, 2)
      [] name = "T" -> Num(2)
      [] name = "PW" -> Num(200)

StatusTimes == { <<Num(1), Num(1)>>, <<Num(0), Num(0)>>, <<Num(1), Num(5000000)>> }

PulseValues(layout) ==
    IF layout = <<>> THEN { <<>> }
    ELSE { <<a, b>> : a \in FirstValues(layout[1][1]), b \in FirstValues(layout[2][1]) }

\* a cell: the values of one channel in one row
FirstCells(layout) == { st \o pv : st \in StatusTimes, pv \in PulseValues(layout) }

OnCell(layout) == <<Num(1), Num(2)>> \o [k \in 1..Len(layout) |-> OnValue(layout[k][1])]

OffCell(layout) == <<Num(0), Num(500)>> \o [k \in 1..Len(layout) |-> Num(0)]

EndCell(layout) == [k \in 1..(2 + Len(layout)) |-> NaN]

CellGrids(layout, n, r) ==
    { [k \in 1..r |-> [c \in 1..n |->
          IF k = 1 THEN (IF c = 1 THEN first ELSE OnCell(layout)) ELSE rest[k - 1][c]]] :
        first \in FirstCells(layout),
        rest \in [1..(r - 1) -> [1..n -> {OffCell(layout), EndCell(layout)}]] }

RECURSIVE Concat(_)
Concat(ss) == IF ss = <<>> THEN <<>> ELSE Head(ss) \o Concat(Tail(ss))

ProtocolTable(layout, units, grid) ==
    Table(<<Column(0, "Sections", "")>> \o
              Concat([c \in 1..Len(units) |->
                  <<Column(c, "status", ""), Column(c, "time", units[c])>> \o
                  [k \in 1..Len(layout) |-> Column(c, layout[k][1], layout[k][2])]]),
          [r \in 1..Len(grid) |-> <<Num(r)>> \o Concat(grid[r])])

\* TRUE when CheckEmptyDataInMiddle raises
CheckEmptyDataInMiddle(df) ==
    \E k \in 1..Len(df.cols) : \E r1, r2 \in 1..Len(df.rows) :
        r1 < r2 /\ IsNaN(df.rows[r1][k]) /\ ~IsNaN(df.rows[r2][k])

ChannelUnits(n) == { u \in [1..n -> ChUnits] : \A c \in 2..n : u[c] \in {"ms", "sec"} }

PulseIdle ==
    /\ protocol_df = None
    /\ ch_units = None
    /\ resolved = None
    /\ converted = None
    /\ ppc = "idle"

\* the cells of one row of one channel: frequency (Hz), period (ms),
\* pulse_width (ms), duty_cycle; NaN is an empty cell or a missing column
RowFrequencies == {NaN, Num(0), Num(1), Num(6), Num(10), Num(4000)}

RowPeriods == {NaN, Num(0), Num(50), Num(100), Num(1000)}

RowPulseWidths == {NaN, Num(0), Num(80), Num(100), Num(167), Num(200)}

RowDutyCycles == {NaN, Num(0), Rat(1, 2), Num(1), Num(50), Num(100), Num(150)}

RowInputs ==
    [freq : RowFrequencies, period : RowPeriods, pw : RowPulseWidths, dc : RowDutyCycles]

RowIdle ==
    /\ row_in = None
    /\ row_out = None
    /\ rowpc = "idle"

(***************************************************************************)
(* The run of a protocol against the device: LightControllerParser and     *)
(* main().  `parser` holds the fields of the LightControllerParser object, *)
(* `protocol_file` what the parsers read from the selected file, `arduino` *)
(* how the connected device answers, `serial_out` the lines written to the *)
(* serial port so far and `feedback` the outcome of each SendCommand.      *)
(* A command line is the record of its fields (TxtCommand).                *)
(***************************************************************************)
\* self.calib_factor = None
NoFactor == Rat(0, 0)

\* the keys of a command line, "KEY:" being the text the line contains
CommandKeys(cmd) ==
    {"PATTERN", "CH", "STATUS", "TIME_MS", "REPEATS"}
        \cup (IF cmd.pulse = NoClause THEN {} ELSE {"PULSE"})

\* A plausible slip: a PULSE clause for every pattern with period and
\* pulse_width columns.
PatternCommandAlwaysPulse(i, n, pattern) ==
    LET tuples == pattern.pattern
    IN TxtCommand(i, n,
                  [k \in 1..Len(tuples) |-> tuples[k][1]],
                  [k \in 1..Len(tuples) |-> tuples[k][2]],
                  pattern.repeats,
                  IF Len(tuples[1]) = 4 THEN [k \in 1..Len(tuples) |-> <<tuples[k][3], tuples[k][4]>>]
                  ELSE NoClause)

\* one command of GeneratePatternCommands: pattern i (from 1) of channel n
PatternCommand(i, n, pattern) ==
    LET tuples == pattern.pattern
        has_pulse == /\ Len(tuples[1]) = 4
                     /\ \E k \in 1..Len(tuples) : tuples[k][3] # 0 \/ tuples[k][4] # 0
    IN TxtCommand(i, n,
                  [k \in 1..Len(tuples) |-> tuples[k][1]],
                  [k \in 1..Len(tuples) |-> tuples[k][2]],
                  pattern.repeats,
                  IF has_pulse THEN [k \in 1..Len(tuples) |-> <<tuples[k][3], tuples[k][4]>>]
                  ELSE NoClause)

\* A plausible slip: a pattern is skipped when its statuses are all 0,
\* whatever its times.
AllZeroStatus(cmd) == \A k \in 1..Len(cmd.status) : cmd.status[k] = 0

\* "if the status_values are all 0, time_values are all 0, skip"
AllZero(cmd) ==
    /\ \A k \in 1..Len(cmd.status) : cmd.status[k] = 0
    /\ \A k \in 1..Len(cmd.time_ms) : cmd.time_ms[k] = 0

GeneratePatternCommands(compressed_patterns) ==
    Concat([n \in 1..Len(compressed_patterns) |->
        SelectSeq([i \in 1..Len(compressed_patterns[n]) |->
                      PatternCommand(i, n, compressed_patterns[n][i])],
                  LAMBDA c : ~AllZero(c))])

\* int(start_time[ch] * 1000) for a countdown in seconds
CountDown(start_time) == [ch \in DOMAIN start_time |-> start_time[ch] * 1000]

\* wait_status[ch] is None
NoStatus == -1

\* wait_pulse[ch] is None
NoPulse == <<>>

\* TRUE when GenerateWaitCommands raises: KeyError for a channel without a
\* wait status, AttributeError for a channel whose wait pulse is None
GenerateWaitCommandsRaises(wait_status, valid_channels, wait_pulse) ==
    \E k \in 1..Len(valid_channels) :
        \/ valid_channels[k] \notin DOMAIN wait_status
        \/ /\ wait_status[valid_channels[k]] # NoStatus
           /\ valid_channels[k] \in DOMAIN wait_pulse
           /\ wait_pulse[valid_channels[k]] = NoPulse

\* a channel whose wait status is None is skipped; wait_pulse[ch] is
\* <<period, pw>>
GenerateWaitCommands(wait_status, remaining_time, valid_channels, wait_pulse) ==
    LET chs == SelectSeq(valid_channels, LAMBDA ch : wait_status[ch] # NoStatus)
    IN [k \in 1..Len(chs) |->
           TxtCommand(0, chs[k], <<wait_status[chs[k]]>>, <<remaining_time[chs[k]]>>, 1,
                      IF chs[k] \in DOMAIN wait_pulse THEN <<wait_pulse[chs[k]]>> ELSE NoClause)]

\* the longest STATUS list of the commands, 0 when there is none
RECURSIVE _detect_pattern_length_from_commands(_)
_detect_pattern_length_from_commands(commands) ==
    IF commands = <<>> THEN 0
    ELSE Max(Len(Head(commands).status), _detect_pattern_length_from_commands(Tail(commands)))

\* TRUE when _validate_pattern_capacity raises.  A command is counted when
\* its text contains 'PATTERN_NUM:' and 'CHANNEL:'.
_validate_pattern_capacity(arduino_config, commands) ==
    LET counted == { k \in 1..Len(commands) :
                        "PATTERN_NUM" \in CommandKeys(commands[k])
                        /\ "CHANNEL" \in CommandKeys(commands[k]) }
        pattern_count(ch) == Cardinality({ k \in counted : commands[k].ch = ch })
    IN /\ counted # {}
       /\ "max_pattern_num" \in DOMAIN arduino_config
       /\ \E k \in counted : pattern_count(commands[k].ch) > arduino_config["max_pattern_num"]

Result(err, p) == [err |-> err, parser |-> p]

\* parse_excel_protocol and parse_txt_protocol: the fields read from the
\* file; both set self.calib_factor to the file's factor.
ParseProtocol(p, f) ==
    IF f.parse_raises THEN Result("ValueError", p)
    ELSE Result(None, [p EXCEPT !.calib_factor = f.calib_factor,
                                !.valid_channels = f.valid_channels,
                                !.start_time = f.start_time,
                                !.wait_status = f.wait_status])

\* A plausible slip: auto_calibrate_arduino is called whatever the factor.
calibrateAlways(p, calibration) ==
    LET called == [p EXCEPT !.auto_calibrations = p.auto_calibrations + 1]
    IN IF calibration.err # None THEN Result(calibration.err, called)
       ELSE Result(None, [called EXCEPT !.calib_factor = calibration.factor])

\* calibrate(): auto_calibrate_arduino runs only when there is no factor;
\* calibration is what it returns, [err, factor].  auto_calibrations counts
\* the calls of auto_calibrate_arduino (the database look-up, the device
\* exchange and the database write are all in it).
calibrate(p, calibration) ==
    LET called == [p EXCEPT !.auto_calibrations = p.auto_calibrations + 1]
    IN IF p.calib_factor # NoFactor THEN Result(None, p)
       ELSE IF calibration.err # None THEN Result(calibration.err, called)
       ELSE Result(None, [called EXCEPT !.calib_factor = calibration.factor])

\* The commands of the file's kind, from the parsed file and the factor.
CompileCommands(p, f) ==
    IF p.file_ext = "txt"
    THEN [err |-> None,
          commands |-> ApplyCalibrationToTxtCommands(
                           SelectSeq(f.txt, LAMBDA c : c.pattern # 0), p.calib_factor)]
    ELSE LET compressed_patterns == FindRepeatedPatterns(CorrectTime_df(f.df_ms, p.calib_factor),
                                                p.pattern_length)
         IN IF compressed_patterns.err THEN [err |-> "ValueError", commands |-> <<>>]
            ELSE [err |-> None, commands |-> GeneratePatternCommands(compressed_patterns.patterns)]

generate_pattern_commands(p, f, calibration) ==
    LET parsed == ParseProtocol(p, f)
        calibrated == IF parsed.parser.ser THEN calibrate(parsed.parser, calibration) ELSE parsed
        p2 == calibrated.parser
        compiled == CompileCommands(p2, f)
        p3 == [p2 EXCEPT !.cmd_patterns = compiled.commands]
    IN IF parsed.err # None THEN parsed
       ELSE IF calibrated.err # None THEN calibrated
       ELSE IF /\ p2.calib_factor = NoFactor
               /\ (p2.file_ext = "xlsx" \/ \E k \in 1..Len(f.txt) : f.txt[k].pattern # 0)
            THEN \* a division by None, in CorrectTime_df or at the first TIME_MS list
                 Result("TypeError", p2)
       ELSE IF compiled.err # None THEN Result(compiled.err, p2)
       ELSE IF /\ p3.cmd_patterns # <<>>
               /\ DOMAIN p3.arduino_config # {}
               /\ _validate_pattern_capacity(p3.arduino_config, p3.cmd_patterns)
            THEN Result("ValueError", p3)
       ELSE Result(None, p3)

generate_wait_commands(p) ==
    IF p.calib_factor = NoFactor THEN Result("TypeError", p)
    ELSE IF GenerateWaitCommandsRaises(p.wait_status, p.valid_channels, <<>>) THEN Result("KeyError", p)
    ELSE Result(None, [p EXCEPT !.cmd_wait =
             GenerateWaitCommands(p.wait_status,
                                  CorrectTime_dict(CountDown(p.start_time), p.calib_factor),
                                  p.valid_channels, <<>>)])

\* A plausible slip: the wait commands first.
send_commands_wait_first(p) == p.cmd_wait \o p.cmd_patterns

\* send_commands: the commands in the order they are written
send_commands(p) == p.cmd_patterns \o p.cmd_wait

\* A plausible slip: sending before the wait commands are generated.
parse_and_execute_send_early ==
    <<"generate_pattern_commands", "send_commands", "generate_wait_commands", "save_commands">>

\* parse_and_execute: its steps in order
parse_and_execute ==
    <<"generate_pattern_commands", "generate_wait_commands", "send_commands", "save_commands">>

\* the step after step s of parse_and_execute; main() then leaves the with block
NextStep(s) ==
    LET k == CHOOSE i \in 1..Len(parse_and_execute) : parse_and_execute[i] = s
    IN IF k < Len(parse_and_execute) THEN parse_and_execute[k + 1] ELSE "close"

\* the configuration a greeting response carries: "Salve" alone carries none
GreetingConfig(a) ==
    IF a.greeting = "new"
    THEN [k \in {"pattern_length", "max_pattern_num"} |->
             IF k = "pattern_length" THEN a.pattern_length ELSE a.max_pattern_num]
    ELSE [k \in {} |-> 0]

\* A plausible slip: the warning also when the lengths are equal.
SendGreetingWarnsOnEqual(a, expected_pattern_length) ==
    LET arduino_config == GreetingConfig(a)
        verify == expected_pattern_length > 0 /\ "pattern_length" \in DOMAIN arduino_config
    IN IF a.greeting = "silent"
       THEN [err |-> "TimeoutError", config |-> arduino_config, warning |-> FALSE]
       ELSE IF verify /\ expected_pattern_length > arduino_config["pattern_length"]
       THEN [err |-> "ValueError", config |-> arduino_config, warning |-> FALSE]
       ELSE [err |-> None, config |-> arduino_config,
             warning |-> verify /\ expected_pattern_length <= arduino_config["pattern_length"]]

\* SendGreeting once the device has answered (or not): expected_pattern_length
\* 0 stands for None.
SendGreeting(a, expected_pattern_length) ==
    LET arduino_config == GreetingConfig(a)
        verify == expected_pattern_length > 0 /\ "pattern_length" \in DOMAIN arduino_config
    IN IF a.greeting = "silent"
       THEN [err |-> "TimeoutError", config |-> arduino_config, warning |-> FALSE]
       ELSE IF verify /\ expected_pattern_length > arduino_config["pattern_length"]
       THEN [err |-> "ValueError", config |-> arduino_config, warning |-> FALSE]
       ELSE [err |-> None, config |-> arduino_config,
             warning |-> verify /\ expected_pattern_length < arduino_config["pattern_length"]]

EmptyConfig == [k \in {} |-> 0]

ProtocolFile(ext, parse_raises, df, txt, factor, channels, wait) ==
    [ext |-> ext, parse_raises |-> parse_raises, df_ms |-> df, txt |-> txt,
     calib_factor |-> factor, valid_channels |-> channels,
     start_time |-> [ch \in Range(channels) |-> 5 * ch], wait_status |-> wait]

\* the tables parse_excel_protocol returns (a shorter channel ends in 0, 0)
RunTables ==
    { << << <<1, 1000>>, <<0, 1000>>, <<1, 1000>>, <<0, 1000>> >> >>,
      << << <<1, 1000>>, <<0, 1000>>, <<1, 2000>> >> >>,
      << << <<1, 1000>> >> >>,
      << << <<1, 1000>>, <<0, 1000>> >>, << <<1, 2000>>, <<0, 0>> >> >>,
      << << <<1, 1000, 100, 10>>, <<0, 1000, 0, 0>> >> >>,
      << << <<1, 1000, 100, 0>> >> >>,
      << << <<0, 0>>, <<0, 0>> >> >> }

\* the PATTERN lines of a text file, in file order
RunTxtLines ==
    { << TxtCommand(1, 1, <<1, 0>>, <<1000, 1000>>, 2, NoClause) >>,
      << TxtCommand(1, 2, <<1, 0>>, <<2000, 2000>>, 1, NoClause),
         TxtCommand(1, 1, <<1, 0>>, <<1000, 1000>>, 2, NoClause) >>,
      << TxtCommand(1, 1, <<1, 0, 1, 0>>, <<1000, 1000, 2000, 2000>>, 1, NoClause) >>,
      << TxtCommand(1, 1, <<1, 0>>, <<1000, 1000>>, 2, NoClause),
         TxtCommand(2, 1, <<1>>, <<60000>>, 1, << <<1000, 100>> >>) >>,
      << TxtCommand(0, 1, <<1>>, <<5000>>, 1, NoClause),
         TxtCommand(1, 1, <<1, 0>>, <<1000, 1000>>, 2, NoClause) >>,
      <<>> }

FileFactors == { NoFactor, Rat(1, 1), Rat(1001, 1000) }

\* the wait statuses read for a list of channels: one per channel, the first
\* channel's possibly None; a text file may leave the last channel out
WaitStatuses(ext, channels) ==
    { [ch \in Range(channels) |-> IF ch = channels[1] THEN s ELSE 0] : s \in {1, NoStatus} }
    \cup (IF ext = "txt" /\ Len(channels) > 1
          THEN { [ch \in Range(channels) \ {channels[Len(channels)]} |-> 1] }
          ELSE {})

ProtocolFiles ==
    UNION { { ProtocolFile("xlsx", FALSE, t, <<>>, c, [n \in 1..Len(t) |-> n], w) :
                c \in FileFactors, w \in WaitStatuses("xlsx", [n \in 1..Len(t) |-> n]) } :
            t \in RunTables }
    \cup UNION { { ProtocolFile("txt", FALSE, <<>>, t, c, chs, w) :
                     t \in RunTxtLines, c \in FileFactors, w \in WaitStatuses("txt", chs) } :
                 chs \in { <<1>>, <<1, 2>>, <<2, 1>> } }
    \cup { ProtocolFile(e, TRUE, <<>>, <<>>, NoFactor, <<>>, EmptyConfig) : e \in {"xlsx", "txt"} }

\* the device: whether a port is found, its pulse mode, its answer to the
\* greeting (new format, "Salve" alone, none), the PATTERN_LENGTH and
\* MAX_PATTERN_NUM it advertises, and how a calibration run ends
Arduinos ==
    { [port |-> FALSE, pulse_mode |-> 0, greeting |-> "silent", pattern_length |-> 0,
       max_pattern_num |-> 0, calibration |-> [err |-> "TimeoutError", factor |-> NoFactor]] }
    \cup { [port |-> TRUE, pulse_mode |-> pm, greeting |-> g[1], pattern_length |-> g[2],
            max_pattern_num |-> g[3], calibration |-> c] :
           pm \in {0, 1},
           g \in { <<"new", d, m>> : d \in {1, 2, 4}, m \in {1, 10} }
                 \cup { <<"old", 0, 0>>, <<"silent", 0, 0>> },
           c \in { [err |-> None, factor |-> Rat(1001, 1000)],
                   [err |-> "TimeoutError", factor |-> NoFactor] } }

\* protocol_requires_pulse of setup_serial
RequiresPulse(f) ==
    \/ \E n \in 1..Len(f.df_ms) : \E k \in 1..Len(f.df_ms[n]) : Len(f.df_ms[n][k]) = 4
    \/ \E k \in 1..Len(f.txt) : f.txt[k].pulse # NoClause

\* a line written to the serial port
Line(text, cmd) == [text |-> text, cmd |-> cmd]

NoCommand == TxtCommand(0, 0, <<>>, <<>>, 0, NoClause)

\* the pattern and wait commands written so far, in order
CommandsWritten == SelectSeq(serial_out, LAMBDA l : l.text = "command")

RunIdle ==
    /\ parser = None
    /\ protocol_file = None
    /\ arduino = None
    /\ serial_out = <<>>
    /\ feedback = <<>>
    /\ send_idx = 0
    /\ pc = "idle"
    /\ raised = None
    /\ raised_at = None
    /\ warned = FALSE
    /\ generated = {}

(***************************************************************************)
(* CalibrationManager: auto_calibrate_arduino and the calibration database *)
(*                                                                         *)
(* db maps a board id to its record; a record holds the factor, the method *)
(* and its timestamp, kept as what strptime makes of it (parsed, wrong     *)
(* format, key missing) and, when it parses, the record's age at the call  *)
(* in half days.  A calibration run is a loop over the expected device     *)
(* responses; each arrives before its deadline or does not.                *)
(***************************************************************************)
\* the connected board and another board of the database
BoardIds == {"this_board", "other_board"}

unique_id == "this_board"

\* unique_id not in db
NoRecord == [timestamp |-> "absent", age |-> 0, calib_factor |-> NoFactor, method |-> None]

Record(timestamp, age, factor, method) ==
    [timestamp |-> timestamp, age |-> age, calib_factor |-> factor, method |-> method]

\* "Check calibration age (3 months = 90 days)"
ExpiryDays == 90

HalfDaysPerDay == 2

\* (now - calib_timestamp).days: whole days, rounded down
age_days(record) == FloorDiv(record.age, HalfDaysPerDay)

\* What the database file holds: a JSON object of records, text that
\* json.load does not parse (db then holds the records written in it), or
\* JSON that is no object, here an array.
FileKinds == {"object", "unparsable", "array"}

\* load_calibration_database: {} for a file that is not there or does not
\* parse.  An array holds no key, and is read as it is.
load_calibration_database(file, database) ==
    IF file = "object" THEN database ELSE [id \in BoardIds |-> NoRecord]

\* get_calibration_for_arduino: the record, or NoRecord for None
get_calibration_for_arduino(database) ==
    LET calib_data == database[unique_id]
    IN IF calib_data = NoRecord THEN NoRecord
       ELSE IF calib_data.timestamp \in {"bad_format", "missing"} THEN NoRecord
       ELSE IF age_days(calib_data) > ExpiryDays THEN NoRecord
       ELSE calib_data

\* A plausible slip: the database written holds the new record alone.
save_calibration_for_arduinoAlone(database, result, method) ==
    [id \in BoardIds |-> IF id = unique_id THEN Record("parsed", 0, result.calib_factor, method)
                          ELSE NoRecord]

\* save_calibration_for_arduino: db[unique_id] = {...}, timestamp now
save_calibration_for_arduino(database, result, method) ==
    [database EXCEPT ![unique_id] = Record("parsed", 0, result.calib_factor, method)]

Methods == {"v1", "v1.1", "v2", "v2_improved", "v3"}

\* t_send of CalibrateArduinoTime and CalibrateArduinoTime_v11
t_send == <<60, 70, 80, 90>>

\* num_samples auto_calibrate_arduino passes to v2 and to v2_improved
num_samples(method) == IF method = "v2" THEN 10 ELSE 9

\* the number of device responses a method waits for
expected_reports(method) ==
    IF method \in {"v1", "v1.1"} THEN Len(t_send) ELSE num_samples(method) + 1

\* what a method does when a response misses its deadline: v1's MatchTime
\* returns a variable it never bound, v2 raises, the other two go on
OnTimeout(method) ==
    CASE method = "v1" -> "UnboundLocalError"
      [] method = "v2" -> "TimeoutError"
      [] OTHER -> None

\* the least number of measurements v1.1 and v2_improved fit
MinMeasurements == 2

\* the factor a fit yields (its value plays no part here)
FittedFactor == Rat(1001, 1000)

\* the samples np.polyfit is given, as positions in the list of the samples
\* received: v2_improved fits results[1:], the others all they have
FitSamples(method, collected) ==
    IF method = "v2_improved" THEN 2..collected ELSE 1..collected

\* the end of a calibration method, once its loop is over; np.polyfit
\* raises TypeError on an empty list
CalibrationResult(method, collected) ==
    IF method \in {"v1.1", "v2_improved"} /\ collected < MinMeasurements
    THEN [err |-> "ValueError", calib_factor |-> NoFactor, samples |-> collected, used |-> {}]
    ELSE IF FitSamples(method, collected) = {}
    THEN [err |-> "TypeError", calib_factor |-> NoFactor, samples |-> collected, used |-> {}]
    ELSE [err |-> None, calib_factor |-> FittedFactor, samples |-> collected,
          used |-> FitSamples(method, collected)]

\* a device response: the sample awaited, a line that is no sample, none
\* within the deadline.  v1.1 goes on reading after a line that is no sample.
Responses(method) ==
    IF method = "v1.1" THEN {"sample", "timeout"} ELSE {"sample", "unexpected", "timeout"}

\* what a method does with a line that is no sample: v1's MatchTime returns
\* a variable it never bound, v2 and v2_improved warn or pass over it
OnUnexpected(method) == IF method = "v1" THEN "UnboundLocalError" ELSE None

\* what auto_calibrate_arduino hands back: an error, or a factor and where
\* it comes from ("stored", "default", "new")
Returned(err, factor, source) == [err |-> err, calib_factor |-> factor, source |-> source]

NotReturned == Returned(None, NoFactor, "pending")

\* the ages of a stored record, in half days (180 half days are 90 days)
RecordAges == {0, 179, 180, 181, 182, 400}

StoredFactor == Rat(999, 1000)

Records ==
    { NoRecord }
    \cup { Record("parsed", a, StoredFactor, "v2") : a \in RecordAges }
    \cup { Record(t, 0, StoredFactor, "v2") : t \in {"bad_format", "missing"} }

Databases ==
    { [id \in BoardIds |-> IF id = unique_id THEN r ELSE o] :
        r \in Records, o \in {NoRecord, Record("parsed", 0, StoredFactor, "v1")} }

\* the arguments of a call and the user's answer to the prompt
CalibCalls ==
    [method : Methods, force_recalibrate : BOOLEAN,
     response : {"", "y", "recalibrate", "r", "n", "no"}]

CalibIdle ==
    /\ db = None
    /\ db_before = None
    /\ calib_call = None
    /\ existing_calib = None
    /\ sample_i = 0
    /\ measurements = 0
    /\ timed_out = FALSE
    /\ fitted = {}
    /\ returned = None
    /\ calpc = "idle"
    /\ db_file = None
    /\ db_file_before = None

(***************************************************************************)
(* The integers of a command line, at their full size.  A millisecond      *)
(* value is held as thousands and units (thousands * 1000 + units), which  *)
(* keeps values beyond 2^32 - 1 within the model's integers.               *)
(***************************************************************************)
Wide(thousands, units) == [thousands |-> thousands, units |-> units]

\* an integer below 2^31 as a wide value
ToWide(v) == Wide(v \div 1000, v % 1000)

\* 2**32 - 1 = 4294967295
UINT32_MAX == Wide(4294967, 295)

WideGt(a, b) ==
    \/ a.thousands > b.thousands
    \/ a.thousands = b.thousands /\ a.units > b.units

\* v * mult for a multiplier of 1 or a multiple of 1000
WideScale(v, mult) == IF mult = 1 THEN ToWide(v) ELSE Wide(v * (mult \div 1000), 0)

\* int(x / calib_factor) for a factor n / d
WideCorrected(x, calib_factor) ==
    LET H == x.thousands * calib_factor.d
        rest == (H % calib_factor.n) * 1000 + x.units * calib_factor.d
        t == rest \div calib_factor.n
    IN Wide(H \div calib_factor.n + t \div 1000, t % 1000)

Emitted(err, value) == [err |-> err, value |-> value]

\* a TIME_MS value of a pattern command, spreadsheet path: the cell scaled
\* by its channel unit, the range check, then CorrectTime_df
ExcelTimeEmitted(v, unit, calib_factor) ==
    LET ms == WideScale(v, TimeMultiplier(unit))
    IN IF WideGt(ms, UINT32_MAX) THEN Emitted("ValueError", ms)
       ELSE Emitted(None, WideCorrected(ms, calib_factor))

\* a period or pulse_width value, spreadsheet path: scaled by the unit of
\* its column name, range checked, left alone by CorrectTime_df
ExcelPulseEmitted(v, unit) ==
    LET ms == WideScale(v, unit_multipliers(unit))
    IN IF WideGt(ms, UINT32_MAX) THEN Emitted("ValueError", ms) ELSE Emitted(None, ms)

\* a TIME_MS value of a pattern command, text path: ConvertTimeUnitsToMS,
\* then ApplyCalibrationToTxtCommands
TxtTimeEmitted(v, unit, calib_factor) ==
    Emitted(None, WideCorrected(WideScale(v, TimeMultiplier(unit)), calib_factor))

\* a T or pw value of a PULSE clause, text path
TxtPulseEmitted(v, calib_factor) == Emitted(None, WideCorrected(ToWide(v), calib_factor))

\* the TIME_MS value of a wait command: CountDown of a countdown in
\* seconds, then CorrectTime_dict
WaitTimeEmitted(seconds, calib_factor) ==
    Emitted(None, WideCorrected(WideScale(seconds, 1000), calib_factor))

EmittedValue(in) ==
    CASE in.kind = "excel_time" -> ExcelTimeEmitted(in.v, in.unit, in.calib_factor)
      [] in.kind = "excel_pulse" -> ExcelPulseEmitted(in.v, in.unit)
      [] in.kind = "txt_time" -> TxtTimeEmitted(in.v, in.unit, in.calib_factor)
      [] in.kind = "txt_pulse" -> TxtPulseEmitted(in.v, in.calib_factor)
      [] in.kind = "wait_time" -> WaitTimeEmitted(in.v, in.calib_factor)

\* source values with their unit: about 2^32 - 1 ms on either side
SourceValues ==
    { <<1, "ms">>, <<2000000000, "ms">>,
      <<1, "sec">>, <<4294967, "sec">>, <<4294968, "sec">>, <<5000000, "sec">>,
      <<71582, "min">>, <<71583, "min">>,
      <<1193, "hr">>, <<1194, "hr">> }

\* calibration factors, "typically 1.0 +- 0.01"
EmitFactors == { Rat(1, 1), Rat(101, 100), Rat(99, 100) }

EmitInputs ==
    { [kind |-> k, v |-> sv[1], unit |-> sv[2], calib_factor |-> c] :
        k \in {"excel_time", "excel_pulse", "txt_time"}, sv \in SourceValues, c \in EmitFactors }
    \cup { [kind |-> "txt_pulse", v |-> sv[1], unit |-> "ms", calib_factor |-> c] :
             sv \in { x \in SourceValues : x[2] = "ms" }, c \in EmitFactors }
    \cup { [kind |-> "wait_time", v |-> sv[1], unit |-> "sec", calib_factor |-> c] :
             sv \in { x \in SourceValues : x[2] = "sec" }, c \in EmitFactors }

EmitIdle ==
    /\ emit_in = None
    /\ emitted = None
    /\ emitpc = "idle"

(***************************************************************************)
(* Start times.  A start cell is empty, a countdown in seconds, a date     *)
(* and time, a time of day, or a text no format matches; moments are in    *)
(* seconds on a clock that reads 0 when the protocol file is read.  A wait *)
(* cell is empty (NoStatus) or a number.                                   *)
(***************************************************************************)
StartCell(kind, t) == [kind |-> kind, t |-> t]

\* pd.isna(ch_time) in a sheet; None once read
NoStart == StartCell("none", 0)

MaxStartChannels == 2

\* ReadStartTime keeps a number, turns a time of day into today's date and
\* time, and parses anything else with str2datetime
StartValue(cell) ==
    CASE cell.kind = "none" -> [err |-> None, value |-> NoStart]
      [] cell.kind = "countdown" -> [err |-> None, value |-> cell]
      [] cell.kind = "time" -> [err |-> None, value |-> StartCell("datetime", cell.t)]
      [] cell.kind = "datetime" -> [err |-> None, value |-> cell]
      [] OTHER -> [err |-> "ValueError", value |-> NoStart]

\* int(bool(ch_status))
WaitValue(w) == IF w = NoStatus THEN NoStatus ELSE IF w = 0 THEN 0 ELSE 1

StartRead(err, start_time, wait_status) ==
    [err |-> err, start_time |-> start_time, wait_status |-> wait_status]

\* the row-oriented sheet of per-channel data: a column per channel, the
\* start times in the first row, the wait statuses in the second
RowSheet(data) ==
    [layout |-> "row",
     columns |-> [c \in 1..Len(data) |-> c],
     rows |-> << [c \in 1..Len(data) |-> data[c].start],
                 [c \in 1..Len(data) |-> data[c].wait] >>]

\* the column-oriented sheet: a row per channel under Channels, Start_time,
\* Wait_status
ColumnSheet(data) ==
    [layout |-> "column",
     rows |-> [k \in 1..Len(data) |->
                  [Channels |-> k, Start_time |-> data[k].start, Wait_status |-> data[k].wait]]]

_ReadStartTimeRowFormat(df_startTime) ==
    LET valid_columns == df_startTime.columns
        chs == Range(valid_columns)
        col(ch) == CHOOSE c \in 1..Len(valid_columns) : valid_columns[c] = ch
        ch_time(ch) == df_startTime.rows[1][col(ch)]
        ch_status(ch) == df_startTime.rows[2][col(ch)]
        start_time_nans == SelectSeq(valid_columns, LAMBDA ch : ch_time(ch).kind = "none")
        wait_status_nans == SelectSeq(valid_columns, LAMBDA ch : ch_status(ch) = NoStatus)
    IN IF Len(df_startTime.rows) # 2 \/ valid_columns = <<>>
       THEN StartRead("ValueError", <<>>, <<>>)
       ELSE IF \E ch \in chs : StartValue(ch_time(ch)).err # None
       THEN StartRead("ValueError", <<>>, <<>>)
       ELSE IF start_time_nans # wait_status_nans
       THEN StartRead("ValueError", <<>>, <<>>)
       ELSE StartRead(None,
                      [ch \in chs |-> StartValue(ch_time(ch)).value],
                      [ch \in chs |-> WaitValue(ch_status(ch))])

\* A plausible slip: the column layout read without the check that a
\* channel has both values or neither.
_ReadStartTimeColumnFormatUnchecked(df_startTime) ==
    LET rows == df_startTime.rows
        chs == { rows[k].Channels : k \in 1..Len(rows) }
        row(ch) == rows[CHOOSE k \in 1..Len(rows) : rows[k].Channels = ch]
    IN IF \E k \in 1..Len(rows) : StartValue(rows[k].Start_time).err # None
       THEN StartRead("ValueError", <<>>, <<>>)
       ELSE StartRead(None,
                      [ch \in chs |-> StartValue(row(ch).Start_time).value],
                      [ch \in chs |-> WaitValue(row(ch).Wait_status)])

_ReadStartTimeColumnFormat(df_startTime) ==
    LET rows == df_startTime.rows
        chs == { rows[k].Channels : k \in 1..Len(rows) }
        \* a later row of the same channel overwrites an earlier one
        row(ch) == rows[CHOOSE k \in 1..Len(rows) :
                            /\ rows[k].Channels = ch
                            /\ \A j \in (k + 1)..Len(rows) : rows[j].Channels # ch]
        start_time_nans == SelectSeq(rows, LAMBDA r : r.Start_time.kind = "none")
        wait_status_nans == SelectSeq(rows, LAMBDA r : r.Wait_status = NoStatus)
    IN IF \E k \in 1..Len(rows) : StartValue(rows[k].Start_time).err # None
       THEN StartRead("ValueError", <<>>, <<>>)
       ELSE IF [k \in 1..Len(start_time_nans) |-> start_time_nans[k].Channels]
               # [k \in 1..Len(wait_status_nans) |-> wait_status_nans[k].Channels]
       THEN StartRead("ValueError", <<>>, <<>>)
       ELSE StartRead(None,
                      [ch \in chs |-> StartValue(row(ch).Start_time).value],
                      [ch \in chs |-> WaitValue(row(ch).Wait_status)])

\* the layout is told by the column names
ReadStartTime(df_startTime) ==
    IF df_startTime.layout = "column" THEN _ReadStartTimeColumnFormat(df_startTime)
    ELSE _ReadStartTimeRowFormat(df_startTime)

\* TRUE when CheckStartTimeForChannels raises, at the moment now
CheckStartTimeForChannels(start_time, valid_channels, now) ==
    LET missing_start_time ==
            { ch \in Range(valid_channels) :
                ch \notin DOMAIN start_time \/ start_time[ch] = NoStart }
        earlier_start_time ==
            { ch \in Range(valid_channels) :
                start_time[ch].kind = "datetime" /\ start_time[ch].t < now }
    IN missing_start_time # {} \/ earlier_start_time # {}

\* CountDown at the moment now: a countdown is taken as it is, a date and
\* time gives the time left; None gives no entry
CountDownAt(start_time, now) ==
    [ch \in { c \in DOMAIN start_time : start_time[c] # NoStart } |->
        IF start_time[ch].kind = "countdown" THEN start_time[ch].t * 1000
        ELSE (start_time[ch].t - now) * 1000]

\* a wait pulse, <<period, pw>>
WaitPulse == <<2000, 100>>

\* duration of the calibration auto_calibrate_arduino starts, in seconds
CalibrationSeconds == 300

\* the start cell and the wait cell of a channel
FirstChannelCells ==
    [start : { NoStart, StartCell("countdown", -5), StartCell("countdown", 10),
               StartCell("datetime", -60), StartCell("datetime", 120),
               StartCell("datetime", 600), StartCell("time", 120), StartCell("text", 0) },
     wait : { NoStatus, 0, 1, 2 }]

OtherChannelCells ==
    [start : { NoStart, StartCell("countdown", 10), StartCell("datetime", 120) },
     wait : { NoStatus, 1 }]

StartData ==
    UNION { { <<first>> \o rest : first \in FirstChannelCells,
                                  rest \in [1..(n - 1) -> OtherChannelCells] } :
            n \in 1..MaxStartChannels }

\* the non-empty lists of channels in ascending order
ChannelLists(n) ==
    { SelectSeq([c \in 1..n |-> c], LAMBDA c : c \in S) : S \in (SUBSET (1..n)) \ {{}} }

\* a spreadsheet: the start_time sheet in one of the layouts, the channels
\* with a non-empty timeline, and whether the file carries no factor, so
\* that a calibration runs
ExcelStartSources ==
    UNION { { [path |-> "xlsx", sheet |-> sh, data |-> d, timeline_channels |-> tl,
               wait_pulse |-> <<>>, calibrates |-> cal] :
                sh \in { RowSheet(d), ColumnSheet(d) },
                tl \in ChannelLists(Len(d)),
                cal \in BOOLEAN } :
            d \in StartData }

\* the WAIT_PULSE line of a text protocol: absent, a pulse for the first
\* channel, or None for the first channel
WaitPulses == { <<>>, <<WaitPulse>>, <<NoPulse>> }

\* a text protocol: its START_TIME and WAIT_STATUS lines, the channels of
\* its PATTERN lines, and whether it carries no CALIBRATION_FACTOR
TxtStartSources ==
    UNION { { [path |-> "txt", sheet |-> <<>>, data |-> d, timeline_channels |-> tl,
               wait_pulse |-> wp, calibrates |-> cal] :
                tl \in ChannelLists(MaxStartChannels),
                wp \in WaitPulses,
                cal \in BOOLEAN } :
            d \in { x \in StartData : \A c \in 1..Len(x) : x[c].start.kind # "text" /\ x[c].start.kind # "time" } }

\* ReadTxtFile: START_TIME as given; WAIT_STATUS has the first channel, with
\* its value or None, and every other channel the line gives a value for
ReadTxtStartTime(data) ==
    StartRead(None,
              [ch \in 1..Len(data) |-> data[ch].start],
              [ch \in { c \in 1..Len(data) : c = 1 \/ data[c].wait # NoStatus } |->
                  WaitValue(data[ch].wait)])

\* the valid channels of a parsed file
StartValidChannels(src, read) ==
    IF src.path = "xlsx" THEN src.timeline_channels
    ELSE SelectSeq([c \in 1..Len(src.data) |-> c], LAMBDA c : read.start_time[c] # NoStart)

StartIdle ==
    /\ st_src = None
    /\ st_read = None
    /\ st_now = 0
    /\ st_wait = None
    /\ stpc = "idle"

(***************************************************************************)
(* Calibration calls on one device.  A caller is a call of                 *)
(* auto_calibrate_arduino with method v2 by a program that has the port of *)
(* the device open (the parser, calibration_method_comparison.py);         *)
(* SetUpSerialPort opens the port without exclusive access.  call_pc[c] is *)
(* where call c stands, call_i[c] the turn of its sample loop, ser_written *)
(* the callers whose calibrate command was written to the port, in order.  *)
(***************************************************************************)
MaxCallers == 2

Callers == 1..MaxCallers

FlightIdle ==
    /\ call_pc = <<>>
    /\ call_i = <<>>
    /\ ser_written = <<>>

UnitIdle ==
    /\ unit_df = None
    /\ renamed = None
    /\ unit_out = None
    /\ upc = "idle"

PreviewIdle ==
    /\ pv_parser = None
    /\ pv_file = None
    /\ pv_factor = NoFactor
    /\ pv_raised = None
    /\ pvpc = "idle"

SendIdle ==
    /\ snd_parser = None
    /\ snd_idx = 0
    /\ snd_feedback = <<>>
    /\ snd_result = "None"
    /\ sndpc = "idle"

GreetIdle ==
    /\ g_arduino = None
    /\ g_expected = 0
    /\ g_elapsed = 0
    /\ g_turn = 0
    /\ g_result = None
    /\ gpc = "idle"

(***************************************************************************)
(* SpecCompress                                                            *)
(***************************************************************************)
InitCompress ==
    /\ df_ms \in CompressTables
    /\ pattern_length \in PatternLengths
    /\ compressed = None
    /\ cpc = "start"
    /\ cmd_lines = <<>>
    /\ recompressed = None
    /\ cstep = "compress"
    /\ CorrIdle
    /\ PulseIdle
    /\ RunIdle
    /\ CalibIdle
    /\ RowIdle
    /\ EmitIdle
    /\ StartIdle
    /\ FlightIdle
    /\ UnitIdle
    /\ PreviewIdle
    /\ SendIdle
    /\ GreetIdle

Compress ==
    /\ cpc = "start"
    /\ compressed' = FindRepeatedPatterns(df_ms, pattern_length)
    /\ cpc' = "done"
    /\ cstep' = "compressed"
    /\ UNCHANGED <<cmd_lines, recompressed>>
    /\ UNCHANGED <<df_ms, pattern_length, corrVars, pulseVars, runVars, calibVars, rowVars, emitVars, startVars, flightVars, unitVars, previewVars, sendVars, greetVars>>

NextCompress == Compress

SpecCompress == InitCompress /\ [][NextCompress]_<<compVars, corrVars, pulseVars, runVars, calibVars, rowVars, emitVars, startVars, flightVars, unitVars, previewVars, sendVars, greetVars>>

(***************************************************************************)
(* SpecCommands: FindRepeatedPatterns, then GeneratePatternCommands on its *)
(* output, or FindRepeatedPatterns again on the expansion of its output    *)
(***************************************************************************)
InitCommands ==
    /\ df_ms \in CommandTables
    /\ pattern_length \in PatternLengths
    /\ compressed = None
    /\ cpc = "start"
    /\ cmd_lines = <<>>
    /\ recompressed = None
    /\ cstep = "compress"
    /\ CorrIdle
    /\ PulseIdle
    /\ RunIdle
    /\ CalibIdle
    /\ RowIdle
    /\ EmitIdle
    /\ StartIdle
    /\ FlightIdle
    /\ UnitIdle
    /\ PreviewIdle
    /\ SendIdle
    /\ GreetIdle

\* GeneratePatternCommands on the compressed patterns
GenerateCommands ==
    /\ cstep = "compressed"
    /\ ~compressed.err
    /\ cmd_lines' = GeneratePatternCommands(compressed.patterns)
    /\ cstep' = "generated"
    /\ UNCHANGED <<df_ms, pattern_length, compressed, cpc, recompressed>>
    /\ UNCHANGED <<corrVars, pulseVars, runVars, calibVars, rowVars, emitVars, startVars, flightVars, unitVars, previewVars, sendVars, greetVars>>

\* FindRepeatedPatterns on the expansion of its own output
Recompress ==
    /\ cstep = "compressed"
    /\ ~compressed.err
    /\ recompressed' = FindRepeatedPatterns(
                           [n \in 1..Len(compressed.patterns) |-> Expand(compressed.patterns[n])],
                           pattern_length)
    /\ cstep' = "recompressed"
    /\ UNCHANGED <<df_ms, pattern_length, compressed, cpc, cmd_lines>>
    /\ UNCHANGED <<corrVars, pulseVars, runVars, calibVars, rowVars, emitVars, startVars, flightVars, unitVars, previewVars, sendVars, greetVars>>

NextCommands == Compress \/ GenerateCommands \/ Recompress

SpecCommands == InitCommands /\ [][NextCommands]_<<compVars, corrVars, pulseVars, runVars, calibVars, rowVars, emitVars, startVars, flightVars, unitVars, previewVars, sendVars, greetVars>>

(***************************************************************************)
(* SpecCorrect                                                             *)
(***************************************************************************)
InitCorrect ==
    /\ dataIn \in CorrInputs
    /\ corr_factor \in Factors
    /\ corrected = None
    /\ tpc = "start"
    /\ CompressIdle
    /\ PulseIdle
    /\ RunIdle
    /\ CalibIdle
    /\ RowIdle
    /\ EmitIdle
    /\ StartIdle
    /\ FlightIdle
    /\ UnitIdle
    /\ PreviewIdle
    /\ SendIdle
    /\ GreetIdle

CorrectTimeDf ==
    /\ tpc = "start"
    /\ dataIn.kind = "df"
    /\ corrected' = CorrectTime_df(dataIn.df, corr_factor)
    /\ tpc' = "done"
    /\ UNCHANGED <<dataIn, corr_factor, compVars, pulseVars, runVars, calibVars, rowVars, emitVars, startVars, flightVars, unitVars, previewVars, sendVars, greetVars>>

CorrectTimeDict ==
    /\ tpc = "start"
    /\ dataIn.kind = "dict"
    /\ corrected' = CorrectTime_dict(dataIn.dict, corr_factor)
    /\ tpc' = "done"
    /\ UNCHANGED <<dataIn, corr_factor, compVars, pulseVars, runVars, calibVars, rowVars, emitVars, startVars, flightVars, unitVars, previewVars, sendVars, greetVars>>

ApplyCalibrationToTxt ==
    /\ tpc = "start"
    /\ dataIn.kind = "txt"
    /\ corrected' = ApplyCalibrationToTxtCommands(dataIn.txt, corr_factor)
    /\ tpc' = "done"
    /\ UNCHANGED <<dataIn, corr_factor, compVars, pulseVars, runVars, calibVars, rowVars, emitVars, startVars, flightVars, unitVars, previewVars, sendVars, greetVars>>

NextCorrect == CorrectTimeDf \/ CorrectTimeDict \/ ApplyCalibrationToTxt

SpecCorrect == InitCorrect /\ [][NextCorrect]_<<compVars, corrVars, pulseVars, runVars, calibVars, rowVars, emitVars, startVars, flightVars, unitVars, previewVars, sendVars, greetVars>>

(***************************************************************************)
(* SpecPulse                                                               *)
(***************************************************************************)
InitPulse ==
    /\ \E layout \in Layouts, n \in 1..MaxChannels, r \in 1..MaxRows :
           \E units \in ChannelUnits(n), grid \in CellGrids(layout, n, r) :
               /\ protocol_df = ProtocolTable(layout, units, grid)
               /\ ch_units = units
    /\ ~CheckEmptyDataInMiddle(protocol_df)
    /\ resolved = None
    /\ converted = None
    /\ ppc = "start"
    /\ CompressIdle
    /\ CorrIdle
    /\ RunIdle
    /\ CalibIdle
    /\ RowIdle
    /\ EmitIdle
    /\ StartIdle
    /\ FlightIdle
    /\ UnitIdle
    /\ PreviewIdle
    /\ SendIdle
    /\ GreetIdle

\* ConvertTimeToMillisecond, steps 1 to 3
ResolvePulse ==
    /\ ppc = "start"
    /\ resolved' = ResolvePulseColumns(protocol_df)
    /\ ppc' = IF resolved'.err # None THEN "raised" ELSE "resolved"
    /\ UNCHANGED <<protocol_df, ch_units, converted, compVars, corrVars, runVars, calibVars, rowVars, emitVars, startVars, flightVars, unitVars, previewVars, sendVars, greetVars>>

\* ConvertTimeToMillisecond, from the column renaming to the return
BuildTimelineStep ==
    /\ ppc = "resolved"
    /\ converted' = BuildTimeline(resolved, ch_units)
    /\ ppc' = IF converted'.err # None THEN "raised" ELSE "done"
    /\ UNCHANGED <<protocol_df, ch_units, resolved, compVars, corrVars, runVars, calibVars, rowVars, emitVars, startVars, flightVars, unitVars, previewVars, sendVars, greetVars>>

NextPulse == ResolvePulse \/ BuildTimelineStep

SpecPulse == InitPulse /\ [][NextPulse]_<<compVars, corrVars, pulseVars, runVars, calibVars, rowVars, emitVars, startVars, flightVars, unitVars, previewVars, sendVars, greetVars>>

(***************************************************************************)
(* SpecRow: the row loop body of NormalizePulseParameters on one row       *)
(***************************************************************************)
InitRow ==
    /\ row_in \in RowInputs
    /\ row_out = None
    /\ rowpc = "start"
    /\ CompressIdle
    /\ CorrIdle
    /\ PulseIdle
    /\ RunIdle
    /\ CalibIdle
    /\ EmitIdle
    /\ StartIdle
    /\ FlightIdle
    /\ UnitIdle
    /\ PreviewIdle
    /\ SendIdle
    /\ GreetIdle

NormalizeRow ==
    /\ rowpc = "start"
    /\ row_out' = NormalizePulseRow(row_in.freq, row_in.period, row_in.pw, row_in.dc)
    /\ rowpc' = "done"
    /\ UNCHANGED <<row_in, compVars, corrVars, pulseVars, runVars, calibVars, emitVars, startVars, flightVars, unitVars, previewVars, sendVars, greetVars>>

NextRow == NormalizeRow

SpecRow == InitRow /\ [][NextRow]_<<compVars, corrVars, pulseVars, runVars, calibVars, rowVars, emitVars, startVars, flightVars, unitVars, previewVars, sendVars, greetVars>>

(***************************************************************************)
(* SpecEmit: one integer of a command line, from the protocol file to the  *)
(* emitted command                                                         *)
(***************************************************************************)
InitEmit ==
    /\ emit_in \in EmitInputs
    /\ emitted = None
    /\ emitpc = "start"
    /\ CompressIdle
    /\ CorrIdle
    /\ PulseIdle
    /\ RunIdle
    /\ CalibIdle
    /\ RowIdle
    /\ StartIdle
    /\ FlightIdle
    /\ UnitIdle
    /\ PreviewIdle
    /\ SendIdle
    /\ GreetIdle

EmitValue ==
    /\ emitpc = "start"
    /\ emitted' = EmittedValue(emit_in)
    /\ emitpc' = "done"
    /\ UNCHANGED <<emit_in, compVars, corrVars, pulseVars, runVars, calibVars, rowVars, startVars, flightVars, unitVars, previewVars, sendVars, greetVars>>

NextEmit == EmitValue

SpecEmit == InitEmit /\ [][NextEmit]_<<compVars, corrVars, pulseVars, runVars, calibVars, rowVars, emitVars, startVars, flightVars, unitVars, previewVars, sendVars, greetVars>>

(***************************************************************************)
(* SpecStart: the start times from the protocol file to the wait commands  *)
(***************************************************************************)
InitStart ==
    /\ st_src \in ExcelStartSources \cup TxtStartSources
    /\ st_read = None
    /\ st_now = 0
    /\ st_wait = None
    /\ stpc = "read"
    /\ CompressIdle
    /\ CorrIdle
    /\ PulseIdle
    /\ RunIdle
    /\ CalibIdle
    /\ RowIdle
    /\ EmitIdle
    /\ FlightIdle
    /\ UnitIdle
    /\ PreviewIdle
    /\ SendIdle
    /\ GreetIdle

\* parse_excel_protocol / parse_txt_protocol: the start times are read and
\* checked
ReadAndCheckStart ==
    /\ stpc = "read"
    /\ LET read == IF st_src.path = "xlsx" THEN ReadStartTime(st_src.sheet)
                   ELSE ReadTxtStartTime(st_src.data)
       IN /\ st_read' = read
          /\ stpc' = IF read.err # None THEN "raised"
                     ELSE IF CheckStartTimeForChannels(read.start_time,
                                 StartValidChannels(st_src, read), st_now)
                     THEN "raised"
                     ELSE IF st_src.calibrates THEN "calibrate" ELSE "wait"
    /\ UNCHANGED <<st_src, st_now, st_wait>>
    /\ UNCHANGED <<compVars, corrVars, pulseVars, runVars, calibVars, rowVars, emitVars, flightVars, unitVars, previewVars, sendVars, greetVars>>

\* calibrate(): the calibration run takes its time
CalibrateStart ==
    /\ stpc = "calibrate"
    /\ st_now' = st_now + CalibrationSeconds
    /\ stpc' = "wait"
    /\ UNCHANGED <<st_src, st_read, st_wait>>
    /\ UNCHANGED <<compVars, corrVars, pulseVars, runVars, calibVars, rowVars, emitVars, flightVars, unitVars, previewVars, sendVars, greetVars>>

\* generate_wait_commands
GenerateWaitStart ==
    /\ stpc = "wait"
    /\ LET valid_channels == StartValidChannels(st_src, st_read)
           calib_factor == IF st_src.calibrates THEN FittedFactor ELSE Rat(1, 1)
           remaining_time == CorrectTime_dict(CountDownAt(st_read.start_time, st_now), calib_factor)
       IN IF GenerateWaitCommandsRaises(st_read.wait_status, valid_channels, st_src.wait_pulse)
          THEN st_wait' = <<>> /\ stpc' = "wait_raised"
          ELSE /\ st_wait' = GenerateWaitCommands(st_read.wait_status, remaining_time,
                                                  valid_channels, st_src.wait_pulse)
               /\ stpc' = "done"
    /\ UNCHANGED <<st_src, st_read, st_now>>
    /\ UNCHANGED <<compVars, corrVars, pulseVars, runVars, calibVars, rowVars, emitVars, flightVars, unitVars, previewVars, sendVars, greetVars>>

NextStart == ReadAndCheckStart \/ CalibrateStart \/ GenerateWaitStart

SpecStart == InitStart /\ [][NextStart]_<<compVars, corrVars, pulseVars, runVars, calibVars, rowVars, emitVars, startVars, flightVars, unitVars, previewVars, sendVars, greetVars>>

(***************************************************************************)
(* SpecFlight: calls of auto_calibrate_arduino on one serial connection    *)
(***************************************************************************)
InitFlight ==
    /\ call_pc = [c \in Callers |-> "called"]
    /\ call_i = [c \in Callers |-> 0]
    /\ ser_written = <<>>
    /\ CompressIdle
    /\ CorrIdle
    /\ PulseIdle
    /\ RunIdle
    /\ CalibIdle
    /\ RowIdle
    /\ EmitIdle
    /\ StartIdle
    /\ UnitIdle
    /\ PreviewIdle
    /\ SendIdle
    /\ GreetIdle

\* CalibrateArduinoTime_v2 writes its calibrate_timestamps command; nothing
\* is looked at before the write
BeginExchange(c) ==
    /\ call_pc[c] = "called"
    /\ ser_written' = Append(ser_written, c)
    /\ call_pc' = [call_pc EXCEPT ![c] = "exchange"]
    /\ UNCHANGED call_i
    /\ UNCHANGED <<compVars, corrVars, pulseVars, runVars, calibVars, rowVars, emitVars, startVars, unitVars, previewVars, sendVars, greetVars>>

\* one turn of the sample loop
AwaitTimestamp(c) ==
    /\ call_pc[c] = "exchange"
    /\ call_i[c] < expected_reports("v2")
    /\ call_i' = [call_i EXCEPT ![c] = call_i[c] + 1]
    /\ UNCHANGED <<call_pc, ser_written>>
    /\ UNCHANGED <<compVars, corrVars, pulseVars, runVars, calibVars, rowVars, emitVars, startVars, unitVars, previewVars, sendVars, greetVars>>

\* the loop is over: the fit, the record, the return
FinishRun(c) ==
    /\ call_pc[c] = "exchange"
    /\ call_i[c] = expected_reports("v2")
    /\ call_pc' = [call_pc EXCEPT ![c] = "returned"]
    /\ UNCHANGED <<call_i, ser_written>>
    /\ UNCHANGED <<compVars, corrVars, pulseVars, runVars, calibVars, rowVars, emitVars, startVars, unitVars, previewVars, sendVars, greetVars>>

NextFlight == \E c \in Callers : BeginExchange(c) \/ AwaitTimestamp(c) \/ FinishRun(c)

SpecFlight == InitFlight /\ [][NextFlight]_<<compVars, corrVars, pulseVars, runVars, calibVars, rowVars, emitVars, startVars, flightVars, unitVars, previewVars, sendVars, greetVars>>

(***************************************************************************)
(* SpecUnits: steps 1 and 2 of ConvertTimeToMillisecond on a table in      *)
(* which one channel has one pulse column, named by the user, and the      *)
(* other channels have a CH{n}_period column.                              *)
(***************************************************************************)
\* the parameter names a user gives the column
UnitNames == {"T", "t", "period", "PW", "frequency"}

\* the suffixes a user gives the column: none, a time unit, or another word
UnitSuffixes == time_units \cup {"", "us"}

UnitValues == {Num(0), Num(2), Rat(3, 2), NaN}

UnitTable(n, c, name, unit, v) ==
    Table(<<Column(0, "Sections", "")>> \o
              Concat([i \in 1..n |->
                  <<Column(i, "status", ""), Column(i, "time", "sec"),
                    IF i = c THEN Column(i, name, unit) ELSE Column(i, "period", "")>>]),
          << <<Num(1)>> \o Concat([i \in 1..n |->
                  <<Num(1), Num(10), IF i = c THEN v ELSE Num(1000)>>]) >>)

InitUnits ==
    /\ \E n \in 1..MaxChannels : \E c \in 1..n, name \in UnitNames, unit \in UnitSuffixes, v \in UnitValues :
           unit_df = UnitTable(n, c, name, unit, v)
    /\ renamed = None
    /\ unit_out = None
    /\ upc = "start"
    /\ CompressIdle
    /\ CorrIdle
    /\ PulseIdle
    /\ RunIdle
    /\ CalibIdle
    /\ RowIdle
    /\ EmitIdle
    /\ StartIdle
    /\ FlightIdle
    /\ PreviewIdle
    /\ SendIdle
    /\ GreetIdle

\* step 1: protocol_df = NormalizeSynonyms(protocol_df)
NormalizeSynonymsStep ==
    /\ upc = "start"
    /\ renamed' = NormalizeSynonyms(unit_df)
    /\ upc' = IF renamed'.err # None THEN "raised" ELSE "renamed"
    /\ UNCHANGED <<unit_df, unit_out, compVars, corrVars, pulseVars, runVars, calibVars, rowVars, emitVars, startVars, flightVars, previewVars, sendVars, greetVars>>

\* step 2: protocol_df = ConvertPulseTimeUnits(protocol_df)
ConvertPulseTimeUnitsStep ==
    /\ upc = "renamed"
    /\ unit_out' = ConvertPulseTimeUnits(renamed)
    /\ upc' = "done"
    /\ UNCHANGED <<unit_df, renamed, compVars, corrVars, pulseVars, runVars, calibVars, rowVars, emitVars, startVars, flightVars, previewVars, sendVars, greetVars>>

NextUnits == NormalizeSynonymsStep \/ ConvertPulseTimeUnitsStep

SpecUnits == InitUnits /\ [][NextUnits]_<<compVars, corrVars, pulseVars, runVars, calibVars, rowVars, emitVars, startVars, flightVars, unitVars, previewVars, sendVars, greetVars>>

(***************************************************************************)
(* SpecPreview: preview_protocol() creates a parser for the file and calls *)
(* preview_only(calib_factor) on it; no serial port is opened.             *)
(***************************************************************************)
\* the factors a caller passes
PreviewFactors == { Rat(1, 1), Rat(1001, 1000), Rat(999, 1000) }

\* auto_calibrate_arduino is not reached without a serial connection
NoCalibration == [err |-> "ValueError", factor |-> NoFactor]

InitPreview ==
    /\ pv_file \in ProtocolFiles
    /\ pv_factor \in PreviewFactors
    /\ pv_parser = [ser |-> FALSE, file_ext |-> pv_file.ext, pattern_length |-> 2,
                    calib_factor |-> NoFactor, valid_channels |-> <<>>,
                    start_time |-> EmptyConfig, wait_status |-> EmptyConfig,
                    cmd_patterns |-> <<>>, cmd_wait |-> <<>>, arduino_config |-> EmptyConfig,
                    auto_calibrations |-> 0]
    /\ pv_raised = None
    /\ pvpc = "preview_only"
    /\ CompressIdle
    /\ CorrIdle
    /\ PulseIdle
    /\ RunIdle
    /\ CalibIdle
    /\ RowIdle
    /\ EmitIdle
    /\ StartIdle
    /\ FlightIdle
    /\ UnitIdle
    /\ SendIdle
    /\ GreetIdle

\* self.calib_factor = calib_factor; self.generate_pattern_commands()
PreviewGeneratePatterns ==
    /\ pvpc = "preview_only"
    /\ LET r == generate_pattern_commands([pv_parser EXCEPT !.calib_factor = pv_factor],
                                          pv_file, NoCalibration)
       IN /\ pv_parser' = r.parser
          /\ pv_raised' = r.err
          /\ pvpc' = IF r.err # None THEN "raised" ELSE "generate_wait_commands"
    /\ UNCHANGED <<pv_file, pv_factor>>
    /\ UNCHANGED <<compVars, corrVars, pulseVars, runVars, calibVars, rowVars, emitVars, startVars, flightVars, unitVars, sendVars, greetVars>>

\* self.generate_wait_commands()
PreviewGenerateWait ==
    /\ pvpc = "generate_wait_commands"
    /\ LET r == generate_wait_commands(pv_parser)
       IN /\ pv_parser' = r.parser
          /\ pv_raised' = r.err
          /\ pvpc' = IF r.err # None THEN "raised" ELSE "preview"
    /\ UNCHANGED <<pv_file, pv_factor>>
    /\ UNCHANGED <<compVars, corrVars, pulseVars, runVars, calibVars, rowVars, emitVars, startVars, flightVars, unitVars, sendVars, greetVars>>

\* self.preview(...) and the return
PreviewShow ==
    /\ pvpc = "preview"
    /\ pvpc' = "done"
    /\ UNCHANGED <<pv_parser, pv_file, pv_factor, pv_raised>>
    /\ UNCHANGED <<compVars, corrVars, pulseVars, runVars, calibVars, rowVars, emitVars, startVars, flightVars, unitVars, sendVars, greetVars>>

NextPreview == PreviewGeneratePatterns \/ PreviewGenerateWait \/ PreviewShow

SpecPreview == InitPreview /\ [][NextPreview]_<<compVars, corrVars, pulseVars, runVars, calibVars, rowVars, emitVars, startVars, flightVars, unitVars, previewVars, sendVars, greetVars>>

(***************************************************************************)
(* SpecSend: one call of send_commands, with or without a serial           *)
(* connection.  The device echoes a command, answers with another line, or *)
(* does not answer within time_out; SendCommand returns in each case.      *)
(***************************************************************************)
\* the wait commands of a parser
SendWaitLines ==
    { <<>>,
      << TxtCommand(0, 1, <<1>>, <<5000>>, 1, NoClause) >>,
      << TxtCommand(0, 1, <<1>>, <<5000>>, 1, NoClause),
         TxtCommand(0, 2, <<0>>, <<5000>>, 1, NoClause) >> }

\* what SendCommand reads after it wrote the command
Feedbacks == {"echo", "other", "timeout"}

InitSend ==
    /\ \E ser \in BOOLEAN, patterns \in RunTxtLines, wait \in SendWaitLines :
           snd_parser = [ser |-> ser, cmd_patterns |-> patterns, cmd_wait |-> wait]
    /\ snd_idx = 0
    /\ snd_feedback = <<>>
    /\ snd_result = "None"
    /\ sndpc = "send_commands"
    /\ CompressIdle
    /\ CorrIdle
    /\ PulseIdle
    /\ RunIdle
    /\ CalibIdle
    /\ RowIdle
    /\ EmitIdle
    /\ StartIdle
    /\ FlightIdle
    /\ UnitIdle
    /\ PreviewIdle
    /\ GreetIdle

\* "if not self.ser: ... return False"
SendWithoutSerial ==
    /\ sndpc = "send_commands"
    /\ ~snd_parser.ser
    /\ snd_result' = "False"
    /\ sndpc' = "returned"
    /\ UNCHANGED <<snd_parser, snd_idx, snd_feedback>>
    /\ UNCHANGED <<compVars, corrVars, pulseVars, runVars, calibVars, rowVars, emitVars, startVars, flightVars, unitVars, previewVars, greetVars>>

\* one SendCommand(self.ser, cmd_t) of the two loops
SendOneCommand ==
    /\ sndpc = "send_commands"
    /\ snd_parser.ser
    /\ snd_idx < Len(send_commands(snd_parser))
    /\ \E fb \in Feedbacks : snd_feedback' = Append(snd_feedback, fb)
    /\ snd_idx' = snd_idx + 1
    /\ UNCHANGED <<snd_parser, snd_result, sndpc>>
    /\ UNCHANGED <<compVars, corrVars, pulseVars, runVars, calibVars, rowVars, emitVars, startVars, flightVars, unitVars, previewVars, greetVars>>

\* "return True", after the loops
SendReturnsTrue ==
    /\ sndpc = "send_commands"
    /\ snd_parser.ser
    /\ snd_idx = Len(send_commands(snd_parser))
    /\ snd_result' = "True"
    /\ sndpc' = "returned"
    /\ UNCHANGED <<snd_parser, snd_idx, snd_feedback>>
    /\ UNCHANGED <<compVars, corrVars, pulseVars, runVars, calibVars, rowVars, emitVars, startVars, flightVars, unitVars, previewVars, greetVars>>

NextSend == SendWithoutSerial \/ SendOneCommand \/ SendReturnsTrue

SpecSend == InitSend /\ [][NextSend]_<<compVars, corrVars, pulseVars, runVars, calibVars, rowVars, emitVars, startVars, flightVars, unitVars, previewVars, sendVars, greetVars>>

(***************************************************************************)
(* SpecGreeting: the loop of SendGreeting after 'Hello' was written.  In   *)
(* each turn a line of the device is waiting or none is: a line starting   *)
(* with Salve, another non-empty line, or an empty line.  g_elapsed is     *)
(* time.time() - t_greet in seconds, followed up to time_out + 1; g_turn   *)
(* is the number of turns of the loop modulo 2.  The loop keeps turning    *)
(* and the clock keeps running: weak fairness of both.                     *)
(***************************************************************************)
\* time_out=10
time_out == 10

InitGreeting ==
    /\ g_arduino \in { a \in Arduinos : a.port /\ a.greeting # "silent" /\ a.calibration.err = None }
    /\ g_expected \in {0, 2, 4}
    /\ g_elapsed = 0
    /\ g_turn = 0
    /\ g_result = [err |-> "pending", config |-> EmptyConfig]
    /\ gpc = "loop"
    /\ CompressIdle
    /\ CorrIdle
    /\ PulseIdle
    /\ RunIdle
    /\ CalibIdle
    /\ RowIdle
    /\ EmitIdle
    /\ StartIdle
    /\ FlightIdle
    /\ UnitIdle
    /\ PreviewIdle
    /\ SendIdle

\* "if fb.startswith('Salve')": the configuration is returned, or the
\* pattern length check raises ValueError
ReadSalve ==
    /\ gpc = "loop"
    /\ LET g == SendGreeting(g_arduino, g_expected)
       IN /\ g_result' = [err |-> g.err, config |-> g.config]
          /\ gpc' = IF g.err # None THEN "raised" ELSE "returned"
    /\ g_turn' = 1 - g_turn
    /\ UNCHANGED <<g_arduino, g_expected, g_elapsed>>
    /\ UNCHANGED <<compVars, corrVars, pulseVars, runVars, calibVars, rowVars, emitVars, startVars, flightVars, unitVars, previewVars, sendVars>>

\* "elif fb": the greeting is written again and t_greet is reset; the
\* check of the time-out that follows finds no time elapsed
ReadUnexpected ==
    /\ gpc = "loop"
    /\ g_elapsed' = 0
    /\ g_turn' = 1 - g_turn
    /\ UNCHANGED <<g_arduino, g_expected, g_result, gpc>>
    /\ UNCHANGED <<compVars, corrVars, pulseVars, runVars, calibVars, rowVars, emitVars, startVars, flightVars, unitVars, previewVars, sendVars>>

\* "else: continue": an empty line; the check of the time-out is skipped
ReadEmpty ==
    /\ gpc = "loop"
    /\ g_turn' = 1 - g_turn
    /\ UNCHANGED <<g_arduino, g_expected, g_elapsed, g_result, gpc>>
    /\ UNCHANGED <<compVars, corrVars, pulseVars, runVars, calibVars, rowVars, emitVars, startVars, flightVars, unitVars, previewVars, sendVars>>

\* ser.inWaiting() = 0: only the check of the time-out
NothingWaiting ==
    /\ gpc = "loop"
    /\ g_turn' = 1 - g_turn
    /\ IF g_elapsed > time_out
       THEN /\ g_result' = [err |-> "TimeoutError", config |-> EmptyConfig]
            /\ gpc' = "raised"
       ELSE UNCHANGED <<g_result, gpc>>
    /\ UNCHANGED <<g_arduino, g_expected, g_elapsed>>
    /\ UNCHANGED <<compVars, corrVars, pulseVars, runVars, calibVars, rowVars, emitVars, startVars, flightVars, unitVars, previewVars, sendVars>>

\* a second passes
Tick ==
    /\ gpc = "loop"
    /\ g_elapsed <= time_out
    /\ g_elapsed' = g_elapsed + 1
    /\ UNCHANGED <<g_arduino, g_expected, g_turn, g_result, gpc>>
    /\ UNCHANGED <<compVars, corrVars, pulseVars, runVars, calibVars, rowVars, emitVars, startVars, flightVars, unitVars, previewVars, sendVars>>

\* one turn of the while loop
LoopTurn == ReadSalve \/ ReadUnexpected \/ ReadEmpty \/ NothingWaiting

NextGreeting == LoopTurn \/ Tick

greetingVars == <<compVars, corrVars, pulseVars, runVars, calibVars, rowVars, emitVars, startVars, flightVars, unitVars, previewVars, sendVars, greetVars>>

SpecGreeting ==
    /\ InitGreeting
    /\ [][NextGreeting]_greetingVars
    /\ WF_greetingVars(LoopTurn)
    /\ WF_greetingVars(Tick)

(***************************************************************************)
(* Spec: a run of main()                                                   *)
(***************************************************************************)
Init ==
    /\ protocol_file \in ProtocolFiles
    /\ arduino \in Arduinos
    /\ parser = [ser |-> FALSE, file_ext |-> protocol_file.ext, pattern_length |-> 2,
                 calib_factor |-> NoFactor, valid_channels |-> <<>>,
                 start_time |-> EmptyConfig, wait_status |-> EmptyConfig,
                 cmd_patterns |-> <<>>, cmd_wait |-> <<>>, arduino_config |-> EmptyConfig,
                 auto_calibrations |-> 0]
    /\ serial_out = <<>>
    /\ feedback = <<>>
    /\ send_idx = 0
    /\ pc = "setup_serial"
    /\ raised = None
    /\ raised_at = None
    /\ warned = FALSE
    /\ generated = {}
    /\ CompressIdle
    /\ CorrIdle
    /\ PulseIdle
    /\ CalibIdle
    /\ RowIdle
    /\ EmitIdle
    /\ StartIdle
    /\ FlightIdle
    /\ UnitIdle
    /\ PreviewIdle
    /\ SendIdle
    /\ GreetIdle

\* an exception leaves the with block: close() runs and main() prints the error
RaiseAt(e) ==
    /\ raised' = e
    /\ raised_at' = pc
    /\ pc' = "close"

\* setup_serial up to the pulse mode check
SetUpSerial ==
    /\ pc = "setup_serial"
    /\ IF ~arduino.port
       THEN RaiseAt("ValueError") /\ UNCHANGED parser
       ELSE /\ parser' = [parser EXCEPT !.ser = TRUE]
            /\ IF RequiresPulse(protocol_file) /\ arduino.pulse_mode # 1
               THEN RaiseAt("ValueError")
               ELSE pc' = "detect_pattern_length" /\ UNCHANGED <<raised, raised_at>>
    /\ UNCHANGED <<protocol_file, arduino, serial_out, feedback, send_idx, warned, generated>>
    /\ UNCHANGED <<compVars, corrVars, pulseVars, calibVars, rowVars, emitVars, startVars, flightVars, unitVars, previewVars, sendVars, greetVars>>

\* setup_serial: generate_pattern_commands, to detect the pattern length
DetectPatternLength ==
    /\ pc = "detect_pattern_length"
    /\ LET r == generate_pattern_commands(parser, protocol_file, arduino.calibration)
       IN /\ parser' = r.parser
          /\ IF r.err # None
             THEN RaiseAt(r.err) /\ UNCHANGED generated
             ELSE /\ pc' = "greeting"
                  /\ generated' = generated \cup {"patterns"}
                  /\ UNCHANGED <<raised, raised_at>>
    /\ UNCHANGED <<protocol_file, arduino, serial_out, feedback, send_idx, warned>>
    /\ UNCHANGED <<compVars, corrVars, pulseVars, calibVars, rowVars, emitVars, startVars, flightVars, unitVars, previewVars, sendVars, greetVars>>

\* setup_serial: the greeting and the pattern length verification
Greeting ==
    /\ pc = "greeting"
    /\ serial_out' = Append(serial_out, Line("Hello", NoCommand))
    /\ LET max_pattern_length == _detect_pattern_length_from_commands(parser.cmd_patterns)
           g == SendGreeting(arduino, max_pattern_length)
           arduino_pl == IF "pattern_length" \in DOMAIN g.config
                         THEN g.config["pattern_length"] ELSE 0
       IN /\ warned' = g.warning
          /\ IF g.err # None
             THEN RaiseAt(g.err) /\ UNCHANGED parser
             ELSE IF max_pattern_length > 0
             THEN /\ parser' = [parser EXCEPT !.arduino_config = g.config]
                  /\ IF max_pattern_length > arduino_pl
                     THEN RaiseAt("ValueError")
                     ELSE pc' = parse_and_execute[1] /\ UNCHANGED <<raised, raised_at>>
             ELSE pc' = parse_and_execute[1] /\ UNCHANGED <<parser, raised, raised_at>>
    /\ UNCHANGED <<protocol_file, arduino, feedback, send_idx, generated>>
    /\ UNCHANGED <<compVars, corrVars, pulseVars, calibVars, rowVars, emitVars, startVars, flightVars, unitVars, previewVars, sendVars, greetVars>>

\* parse_and_execute: pattern commands, unless setup_serial left some
GeneratePatterns ==
    /\ pc = "generate_pattern_commands"
    /\ IF parser.cmd_patterns # <<>>
       THEN pc' = NextStep(pc) /\ UNCHANGED <<parser, raised, raised_at, generated>>
       ELSE LET r == generate_pattern_commands(parser, protocol_file, arduino.calibration)
            IN /\ parser' = r.parser
               /\ IF r.err # None
                  THEN RaiseAt(r.err) /\ UNCHANGED generated
                  ELSE /\ pc' = NextStep(pc)
                       /\ generated' = generated \cup {"patterns"}
                       /\ UNCHANGED <<raised, raised_at>>
    /\ UNCHANGED <<protocol_file, arduino, serial_out, feedback, send_idx, warned>>
    /\ UNCHANGED <<compVars, corrVars, pulseVars, calibVars, rowVars, emitVars, startVars, flightVars, unitVars, previewVars, sendVars, greetVars>>

\* parse_and_execute: generate_wait_commands
GenerateWait ==
    /\ pc = "generate_wait_commands"
    /\ LET r == generate_wait_commands(parser)
       IN /\ parser' = r.parser
          /\ IF r.err # None
             THEN RaiseAt(r.err) /\ UNCHANGED generated
             ELSE /\ pc' = NextStep(pc)
                  /\ generated' = generated \cup {"wait"}
                  /\ UNCHANGED <<raised, raised_at>>
    /\ UNCHANGED <<protocol_file, arduino, serial_out, feedback, send_idx, warned>>
    /\ UNCHANGED <<compVars, corrVars, pulseVars, calibVars, rowVars, emitVars, startVars, flightVars, unitVars, previewVars, sendVars, greetVars>>

\* send_commands: one SendCommand; the device echoes the line, answers
\* something else or does not answer, and SendCommand returns in each case
SendCommand ==
    /\ pc = "send_commands"
    /\ parser.ser
    /\ send_idx < Len(send_commands(parser))
    /\ serial_out' = Append(serial_out, Line("command", send_commands(parser)[send_idx + 1]))
    /\ \E fb \in {"echo", "other", "timeout"} : feedback' = Append(feedback, fb)
    /\ send_idx' = send_idx + 1
    /\ UNCHANGED <<parser, protocol_file, arduino, pc, raised, raised_at, warned, generated>>
    /\ UNCHANGED <<compVars, corrVars, pulseVars, calibVars, rowVars, emitVars, startVars, flightVars, unitVars, previewVars, sendVars, greetVars>>

\* send_commands returns
SendCommandsReturn ==
    /\ pc = "send_commands"
    /\ ~parser.ser \/ send_idx = Len(send_commands(parser))
    /\ pc' = NextStep(pc)
    /\ UNCHANGED <<parser, protocol_file, arduino, serial_out, feedback, send_idx,
                   raised, raised_at, warned, generated>>
    /\ UNCHANGED <<compVars, corrVars, pulseVars, calibVars, rowVars, emitVars, startVars, flightVars, unitVars, previewVars, sendVars, greetVars>>

\* parse_and_execute: save_commands
SaveCommands ==
    /\ pc = "save_commands"
    /\ pc' = NextStep(pc)
    /\ UNCHANGED <<parser, protocol_file, arduino, serial_out, feedback, send_idx,
                   raised, raised_at, warned, generated>>
    /\ UNCHANGED <<compVars, corrVars, pulseVars, calibVars, rowVars, emitVars, startVars, flightVars, unitVars, previewVars, sendVars, greetVars>>

\* close(), on leaving the with block
Close ==
    /\ pc = "close"
    /\ IF parser.ser
       THEN /\ serial_out' = Append(serial_out, Line("Bye", NoCommand))
            /\ parser' = [parser EXCEPT !.ser = FALSE]
       ELSE UNCHANGED <<serial_out, parser>>
    /\ pc' = "terminated"
    /\ UNCHANGED <<protocol_file, arduino, feedback, send_idx, raised, raised_at,
                   warned, generated>>
    /\ UNCHANGED <<compVars, corrVars, pulseVars, calibVars, rowVars, emitVars, startVars, flightVars, unitVars, previewVars, sendVars, greetVars>>

Next ==
    \/ SetUpSerial
    \/ DetectPatternLength
    \/ Greeting
    \/ GeneratePatterns
    \/ GenerateWait
    \/ SendCommand
    \/ SendCommandsReturn
    \/ SaveCommands
    \/ Close

vars == <<compVars, corrVars, pulseVars, runVars, calibVars, rowVars, emitVars, startVars, flightVars, unitVars, previewVars, sendVars, greetVars>>

Spec == Init /\ [][Next]_vars

(***************************************************************************)
(* SpecCalib: one call of auto_calibrate_arduino                           *)
(***************************************************************************)
InitCalib ==
    /\ db \in Databases
    /\ db_before = db
    /\ db_file \in FileKinds
    /\ db_file_before = db_file
    /\ db_file = "array" => \A id \in BoardIds : db[id] = NoRecord
    /\ calib_call \in CalibCalls
    /\ existing_calib = NoRecord
    /\ sample_i = 0
    /\ measurements = 0
    /\ timed_out = FALSE
    /\ fitted = {}
    /\ returned = NotReturned
    /\ calpc = "check_existing"
    /\ CompressIdle
    /\ CorrIdle
    /\ PulseIdle
    /\ RunIdle
    /\ RowIdle
    /\ EmitIdle
    /\ StartIdle
    /\ FlightIdle
    /\ UnitIdle
    /\ PreviewIdle
    /\ SendIdle
    /\ GreetIdle

\* the look-up and the prompt "Use existing calibration? (Y/n/recalibrate)"
CheckExisting ==
    /\ calpc = "check_existing"
    /\ LET existing == IF calib_call.force_recalibrate THEN NoRecord
                       ELSE get_calibration_for_arduino(load_calibration_database(db_file, db))
       IN IF existing # NoRecord
          THEN IF calib_call.response \in {"recalibrate", "r"}
               THEN /\ existing_calib' = NoRecord
                    /\ calpc' = "calibrate"
                    /\ UNCHANGED returned
               ELSE IF calib_call.response \in {"n", "no"}
               THEN /\ existing_calib' = existing
                    /\ returned' = Returned(None, Rat(1, 1), "default")
                    /\ calpc' = "done"
               ELSE /\ existing_calib' = existing
                    /\ returned' = Returned(None, existing.calib_factor, "stored")
                    /\ calpc' = "done"
          ELSE /\ existing_calib' = NoRecord
               /\ calpc' = "calibrate"
               /\ UNCHANGED returned
    /\ UNCHANGED <<db, db_before, db_file, db_file_before, calib_call, sample_i, measurements, timed_out, fitted>>
    /\ UNCHANGED <<compVars, corrVars, pulseVars, runVars, rowVars, emitVars, startVars, flightVars, unitVars, previewVars, sendVars, greetVars>>

\* "Unknown calibration method"
UnknownMethod ==
    /\ calpc = "calibrate"
    /\ calib_call.method \notin {"v1", "v1.1", "v2", "v2_improved"}
    /\ returned' = Returned("ValueError", NoFactor, "new")
    /\ calpc' = "done"
    /\ UNCHANGED <<db, db_before, db_file, db_file_before, calib_call, existing_calib, sample_i, measurements, timed_out, fitted>>
    /\ UNCHANGED <<compVars, corrVars, pulseVars, runVars, rowVars, emitVars, startVars, flightVars, unitVars, previewVars, sendVars, greetVars>>

\* one turn of the method's loop: the wait for the next device response
AwaitResponse ==
    /\ calpc = "calibrate"
    /\ calib_call.method \in {"v1", "v1.1", "v2", "v2_improved"}
    /\ sample_i < expected_reports(calib_call.method)
    /\ \E response \in Responses(calib_call.method) :
         IF response = "sample"
         THEN /\ sample_i' = sample_i + 1
              /\ measurements' = measurements + 1
              /\ UNCHANGED <<timed_out, returned, calpc>>
         ELSE IF response = "unexpected"
         THEN /\ IF OnUnexpected(calib_call.method) # None
                 THEN /\ returned' = Returned(OnUnexpected(calib_call.method), NoFactor, "new")
                      /\ calpc' = "done"
                      /\ UNCHANGED sample_i
                 ELSE /\ sample_i' = sample_i + 1
                      /\ UNCHANGED <<returned, calpc>>
              /\ UNCHANGED <<measurements, timed_out>>
         ELSE /\ timed_out' = TRUE
              /\ IF OnTimeout(calib_call.method) # None
                 THEN /\ returned' = Returned(OnTimeout(calib_call.method), NoFactor, "new")
                      /\ calpc' = "done"
                      /\ UNCHANGED <<sample_i, measurements>>
                 ELSE /\ sample_i' = sample_i + 1
                      /\ UNCHANGED <<measurements, returned, calpc>>
    /\ UNCHANGED <<db, db_before, db_file, db_file_before, calib_call, existing_calib, fitted>>
    /\ UNCHANGED <<compVars, corrVars, pulseVars, runVars, rowVars, emitVars, startVars, flightVars, unitVars, previewVars, sendVars, greetVars>>

\* the fit, then save_calibration_for_arduino and the return
FinishCalibration ==
    /\ calpc = "calibrate"
    /\ calib_call.method \in {"v1", "v1.1", "v2", "v2_improved"}
    /\ sample_i = expected_reports(calib_call.method)
    /\ LET result == CalibrationResult(calib_call.method, measurements)
       IN \* a fit of a single sample returns with a RankWarning, or raises
          \* LinAlgError when the sample's device time is 0
          \E fit_raises \in IF Cardinality(result.used) = 1 THEN BOOLEAN ELSE {FALSE} :
            /\ fitted' = result.used
            /\ IF result.err # None
               THEN /\ returned' = Returned(result.err, NoFactor, "new")
                    /\ UNCHANGED <<db, db_file>>
               ELSE IF fit_raises
               THEN /\ returned' = Returned("LinAlgError", NoFactor, "new")
                    /\ UNCHANGED <<db, db_file>>
               ELSE IF db_file = "array"
               THEN \* db[unique_id] = {...} on a list
                    /\ returned' = Returned("TypeError", NoFactor, "new")
                    /\ UNCHANGED <<db, db_file>>
               ELSE /\ db' = save_calibration_for_arduino(load_calibration_database(db_file, db),
                                                          result, calib_call.method)
                    /\ db_file' = "object"
                    /\ returned' = Returned(None, result.calib_factor, "new")
    /\ calpc' = "done"
    /\ UNCHANGED <<db_before, db_file_before, calib_call, existing_calib, sample_i, measurements, timed_out>>
    /\ UNCHANGED <<compVars, corrVars, pulseVars, runVars, rowVars, emitVars, startVars, flightVars, unitVars, previewVars, sendVars, greetVars>>

NextCalib == CheckExisting \/ UnknownMethod \/ AwaitResponse \/ FinishCalibration

SpecCalib == InitCalib /\ [][NextCalib]_<<compVars, corrVars, pulseVars, runVars, calibVars, rowVars, emitVars, startVars, flightVars, unitVars, previewVars, sendVars, greetVars>>

(***************************************************************************)
(* C1: round trip.  Whenever FindRepeatedPatterns returns, for every       *)
(* channel the concatenation of its patterns, each repeated `repeats`      *)
(* times, in output order, is exactly the channel's input list of tuples   *)
(* (every pattern length in {1,2,4,8}, every list length, the empty list   *)
(* and lengths not divisible by the pattern length included).              *)
(***************************************************************************)
C1_RoundTrip ==
    (cpc = "done" /\ ~compressed.err) =>
        \A n \in 1..Len(df_ms) : Expand(compressed.patterns[n]) = df_ms[n]

\* A list whose length is no multiple of the pattern length, compressed into
\* a folded pattern (repeats > 1) followed by a shorter last window.
C1_Witness ==
    /\ cpc = "done"
    /\ ~compressed.err
    /\ Len(df_ms) = 1
    /\ pattern_length = 4
    /\ Len(df_ms[1]) % pattern_length # 0
    /\ Len(compressed.patterns[1]) = 2
    /\ compressed.patterns[1][1].repeats = 2
    /\ Len(compressed.patterns[1][2].pattern) < pattern_length

(***************************************************************************)
(* C2: the correction is uniform.  After CorrectTime every time_ms, period *)
(* and pulse_width value v of the table is floor(v / c), and every         *)
(* countdown value of a countdown map is floor(v / c).                     *)
(***************************************************************************)
C2_UniformCorrection ==
    /\ (tpc = "done" /\ dataIn.kind = "df") =>
          \A n \in 1..Len(dataIn.df) : \A k \in 1..Len(dataIn.df[n]) : \A f \in 2..4 :
              corrected[n][k][f] = FloorDiv(dataIn.df[n][k][f] * corr_factor.d, corr_factor.n)
    /\ (tpc = "done" /\ dataIn.kind = "dict") =>
          \A ch \in DOMAIN dataIn.dict :
              corrected[ch] = FloorDiv(dataIn.dict[ch] * corr_factor.d, corr_factor.n)

(***************************************************************************)
(* C9: timeline invariant.  In the table ConvertTimeToMillisecond returns, *)
(* every row of every channel with a period and a pulse_width column has   *)
(* pulse_width <= period, and period = 0 exactly when pulse_width = 0.     *)
(***************************************************************************)
C9_TimelineInvariant ==
    ppc = "done" =>
        \A ch \in 1..Len(ch_units) :
            (/\ HasCol(converted.cols, Column(ch, "period", ""))
             /\ HasCol(converted.cols, Column(ch, "pulse_width", ""))) =>
                \A r \in 1..Len(converted.rows) :
                    LET period == ToInt(converted.rows[r][ColIdx(converted.cols, Column(ch, "period", ""))])
                        pw == ToInt(converted.rows[r][ColIdx(converted.cols, Column(ch, "pulse_width", ""))])
                    IN pw <= period /\ (period = 0 <=> pw = 0)

\* x is a / b rounded to the nearest integer (either neighbour on a tie)
Nearest(x, a, b) == 2 * (IF x * b >= a THEN x * b - a ELSE a - x * b) <= b

\* the value of CH{ch}_{name} in row r of a table, 0 when absent or empty
PulseInput(df, ch, name, r) ==
    IF HasCol(df.cols, Column(ch, name, ""))
    THEN NaNToZero(df.rows[r][ColIdx(df.cols, Column(ch, name, ""))])
    ELSE Num(0)

(***************************************************************************)
(* C10: pulse derivation rounds to nearest.  For every accepted row with   *)
(* frequency f > 0 the resolved period is round(1000 / f), and a pulse     *)
(* width derived from a duty cycle of d percent is round(period * d / 100).*)
(***************************************************************************)
C10_RoundsToNearest ==
    ppc = "resolved" =>
        LET given == ConvertPulseTimeUnits(NormalizeSynonyms(protocol_df))
        IN \A ch \in 1..Len(ch_units) : \A r \in 1..Len(protocol_df.rows) :
            LET f == PulseInput(given, ch, "frequency", r)
                p == PulseInput(given, ch, "period", r)
                w == PulseInput(given, ch, "pulse_width", r)
                d == DutyPercent(PulseInput(given, ch, "duty_cycle", r))
                period == ToInt(PulseInput(resolved, ch, "period", r))
                pw == ToInt(PulseInput(resolved, ch, "pulse_width", r))
            IN /\ f.n > 0 => Nearest(period, 1000 * f.d, f.n)
               /\ (d.n > 0 /\ w.n = 0 /\ (f.n > 0 \/ p.n > 0)) =>
                      Nearest(pw, period * d.n, d.d * 100)

\* the greeting was sent
HelloWritten == \E k \in 1..Len(serial_out) : serial_out[k].text = "Hello"

\* the commands written, as the sequence of their command records
WrittenCommands == [k \in 1..Len(CommandsWritten) |-> CommandsWritten[k].cmd]

IsPrefix(s, t) == Len(s) <= Len(t) /\ s = SubSeq(t, 1, Len(s))

(***************************************************************************)
(* C3: no partial writes.  A pattern or wait command is written to the     *)
(* serial port only after both the pattern-command list and the            *)
(* wait-command list have been generated, and when parsing, correction,    *)
(* compression or wait-command generation raises, none is written.         *)
(***************************************************************************)
C3_NoPartialWrites ==
    /\ CommandsWritten # <<>> => {"patterns", "wait"} \subseteq generated
    /\ (raised # None /\ raised_at \in {"detect_pattern_length", "generate_pattern_commands",
                                        "generate_wait_commands"})
           => CommandsWritten = <<>>

\* a run that has written all its pattern and wait commands
C3_Witness ==
    /\ pc = "terminated"
    /\ raised = None
    /\ parser.cmd_patterns # <<>>
    /\ parser.cmd_wait # <<>>
    /\ WrittenCommands = parser.cmd_patterns \o parser.cmd_wait

\* pattern commands come before wait commands
PatternsBeforeWaits(w) ==
    \A i, j \in 1..Len(w) : (i < j /\ w[i].pattern = 0) => w[j].pattern = 0

\* pattern commands by ascending channel, then ascending pattern index
PatternsAscending(w) ==
    \A i, j \in 1..Len(w) : (i < j /\ w[i].pattern # 0 /\ w[j].pattern # 0) =>
        \/ w[i].ch < w[j].ch
        \/ (w[i].ch = w[j].ch /\ w[i].pattern < w[j].pattern)

\* <<pattern, channel>> of the pattern commands of a list, in order
PatternKeys(w) ==
    LET ps == SelectSeq(w, LAMBDA c : c.pattern # 0)
    IN [k \in 1..Len(ps) |-> <<ps[k].pattern, ps[k].ch>>]

\* wait commands follow the order of valid_channels
WaitsInChannelOrder(w) ==
    LET ws == SelectSeq(w, LAMBDA c : c.pattern = 0)
        chs == SelectSeq(parser.valid_channels, LAMBDA ch : ch \in DOMAIN parser.wait_status /\ parser.wait_status[ch] # NoStatus)
    IN IsPrefix([k \in 1..Len(ws) |-> ws[k].ch], chs)

(***************************************************************************)
(* C4, as claimed: every pattern command is written before any wait        *)
(* command, the pattern commands by ascending channel and, within a        *)
(* channel, ascending pattern index, the wait commands in valid-channel    *)
(* order.                                                                  *)
(***************************************************************************)
C4_AscendingOrder ==
    /\ PatternsBeforeWaits(WrittenCommands)
    /\ PatternsAscending(WrittenCommands)
    /\ WaitsInChannelOrder(WrittenCommands)

(***************************************************************************)
(* C4, amended: every pattern command is written before any wait command,  *)
(* the pattern commands in the order they were generated (for a            *)
(* spreadsheet protocol by ascending channel and pattern index, for a text *)
(* protocol in the order of the PATTERN lines of the file), the wait       *)
(* commands in valid-channel order.                                        *)
(***************************************************************************)
C4_TransmissionOrder ==
    /\ PatternsBeforeWaits(WrittenCommands)
    /\ IF parser.file_ext = "xlsx"
       THEN PatternsAscending(WrittenCommands)
       ELSE IsPrefix(PatternKeys(WrittenCommands), PatternKeys(protocol_file.txt))
    /\ WaitsInChannelOrder(WrittenCommands)

\* a text protocol listing channel 2 before channel 1, sent with its waits
C4_Witness ==
    /\ pc = "terminated"
    /\ raised = None
    /\ parser.file_ext = "txt"
    /\ Len(WrittenCommands) >= 4
    /\ WrittenCommands[1].ch = 2
    /\ WrittenCommands[2].ch = 1
    /\ WrittenCommands[3].pattern = 0

(***************************************************************************)
(* C7: pattern-length capability check.  With a greeting advertising       *)
(* PATTERN_LENGTH = d and a protocol whose longest emitted pattern has p   *)
(* entries: when p > d setup_serial raises and no pattern or wait command  *)
(* is ever written; when p <= d it does not raise, and it warns exactly    *)
(* when p < d.                                                             *)
(***************************************************************************)
C7_PatternLengthCheck ==
    (HelloWritten /\ arduino.greeting = "new") =>
        LET p == _detect_pattern_length_from_commands(parser.cmd_patterns)
            d == arduino.pattern_length
        IN /\ p > d => /\ raised = "ValueError"
                       /\ raised_at = "greeting"
                       /\ CommandsWritten = <<>>
           /\ p <= d => raised_at # "greeting"
           /\ (0 < p /\ p < d) => warned
           /\ warned => p < d

\* a run ended by the check: the protocol needs 2 entries, the device has 1
C7_Witness ==
    /\ pc = "terminated"
    /\ HelloWritten
    /\ arduino.greeting = "new"
    /\ arduino.pattern_length = 1
    /\ _detect_pattern_length_from_commands(parser.cmd_patterns) = 2
    /\ raised = "ValueError"

(***************************************************************************)
(* C8: pattern-count capability check.  When some channel has more         *)
(* compiled pattern commands than the MAX_PATTERN_NUM the greeting         *)
(* advertises, no pattern or wait command is written to the device.        *)
(***************************************************************************)
C8_PatternCountCheck ==
    (/\ HelloWritten
     /\ arduino.greeting = "new"
     /\ \E ch \in 1..2 :
            Cardinality({ k \in 1..Len(parser.cmd_patterns) : parser.cmd_patterns[k].ch = ch })
                > arduino.max_pattern_num)
        => CommandsWritten = <<>>

(***************************************************************************)
(* C5: for every calibration method, a call of auto_calibrate_arduino in   *)
(* which some expected device response missed its deadline ends with an    *)
(* error and leaves the calibration database as it was before the call.    *)
(***************************************************************************)
C5_TimeoutAborts ==
    (calpc = "done" /\ timed_out) => (returned.err # None /\ db = db_before)

(***************************************************************************)
(* C6: auto_calibrate_arduino returns the stored factor only when the      *)
(* database holds a record of the connected board that is at most 90 days  *)
(* old; with a record older than 90 days, or one whose timestamp does not  *)
(* parse, it does what it does without a record: no prompt, a new          *)
(* calibration.                                                            *)
(***************************************************************************)
C6_CalibrationExpiry ==
    calpc = "done" =>
        LET record == db_before[unique_id]
            usable == /\ record # NoRecord
                      /\ record.timestamp = "parsed"
                      /\ record.age <= ExpiryDays * HalfDaysPerDay
        IN /\ returned.source = "stored" => usable
           /\ ~usable => returned.source = "new"

\* a / b rounded to the nearest integer, for a, b > 0 (no tie among the inputs)
RoundDiv(a, b) == (2 * a + b) \div (2 * b)

(***************************************************************************)
(* C11: NormalizePulseParameters raises for a row exactly when only one    *)
(* determinant group is non-zero, or duty_cycle > 100, or pulse_width      *)
(* exceeds the period in effect (the frequency-derived period              *)
(* round(1000 / frequency) when a frequency is given, else the given       *)
(* period); every other row yields a pair, (0, 0) when all four inputs     *)
(* are absent or zero.                                                     *)
(***************************************************************************)
C11_RaisesExactlyWhen ==
    rowpc = "done" =>
        LET f == NaNToZero(row_in.freq)
            p == NaNToZero(row_in.period)
            w == NaNToZero(row_in.pw)
            d == DutyPercent(NaNToZero(row_in.dc))
            period == IF f.n > 0 THEN Num(RoundDiv(1000 * f.d, f.n)) ELSE p
            one_group == \/ (f.n > 0 \/ p.n > 0) /\ w.n = 0 /\ d.n = 0
                         \/ (w.n > 0 \/ d.n > 0) /\ f.n = 0 /\ p.n = 0
            too_wide == w.n > 0 /\ (f.n > 0 \/ p.n > 0) /\ Gt(w, period)
        IN /\ row_out.err <=> (one_group \/ Gt(d, Num(100)) \/ too_wide)
           /\ (f.n = 0 /\ p.n = 0 /\ w.n = 0 /\ d.n = 0) =>
                  (row_out.period = 0 /\ row_out.pulse_width = 0)

(***************************************************************************)
(* C12: 32-bit range.  Every integer of an emitted command line (TIME_MS   *)
(* of a pattern or wait command, period, pulse_width) is at most 2^32 - 1: *)
(* a source value that gives a larger one makes the compilation fail, on   *)
(* the spreadsheet path and on the text path, for every calibration factor.*)
(***************************************************************************)
C12_Uint32Range ==
    (emitpc = "done" /\ emitted.err = None) => ~WideGt(emitted.value, UINT32_MAX)

(***************************************************************************)
(* C13: start deadline.  A compilation succeeds only if every channel with *)
(* a non-empty timeline has a start time and that start time is not in the *)
(* past when it is checked; and every emitted wait command has TIME_MS >=  *)
(* 0, a calibration run between the check and the countdown included.      *)
(***************************************************************************)
C13_StartDeadline ==
    stpc = "done" =>
        /\ \A ch \in Range(st_src.timeline_channels) :
               /\ ch \in DOMAIN st_read.start_time
               /\ st_read.start_time[ch] # NoStart
               /\ st_read.start_time[ch].t >= 0
        /\ \A k \in 1..Len(st_wait) : st_wait[k].time_ms[1] >= 0

(***************************************************************************)
(* C15: for the same start time and wait status of each channel,           *)
(* ReadStartTime returns the same start_time and wait_status maps from the *)
(* row-oriented and from the column-oriented layout, and in both layouts   *)
(* it raises when a channel has exactly one of the two values.             *)
(***************************************************************************)
C15_LayoutsAgree ==
    (stpc # "read" /\ st_src.path = "xlsx") =>
        LET data == st_src.data
            one_value == \E ch \in 1..Len(data) :
                             (data[ch].start = NoStart) # (data[ch].wait = NoStatus)
        IN /\ st_read = ReadStartTime(RowSheet(data))
           /\ st_read = ReadStartTime(ColumnSheet(data))
           /\ one_value => st_read.err # None

C15_Witness ==
    /\ stpc # "read"
    /\ st_src.path = "xlsx"
    /\ st_src.sheet.layout = "column"
    /\ Len(st_src.data) = MaxStartChannels
    /\ st_read.err = None
    /\ st_read.start_time[1].kind = "datetime"
    /\ st_read.start_time[2].kind = "countdown"
    /\ st_read.wait_status[1] = 1

(***************************************************************************)
(* C14: generate_wait_commands never fails and emits exactly one wait line *)
(* for each valid channel, and no other: PATTERN:0, the channel, its idle  *)
(* level as the single STATUS, its corrected countdown as TIME_MS,         *)
(* REPEATS:1, and a PULSE clause exactly when a wait pulse is configured   *)
(* for the channel.                                                        *)
(***************************************************************************)
C14_OneWaitLinePerChannel ==
    stpc \in {"done", "wait_raised"} =>
        LET valid_channels == StartValidChannels(st_src, st_read)
            calib_factor == IF st_src.calibrates THEN FittedFactor ELSE Rat(1, 1)
            countdown == CountDownAt(st_read.start_time, st_now)
        IN /\ stpc = "done"
           /\ Len(st_wait) = Len(valid_channels)
           /\ \A k \in 1..Len(valid_channels) :
                  LET ch == valid_channels[k]
                  IN /\ st_wait[k].pattern = 0
                     /\ st_wait[k].ch = ch
                     /\ st_wait[k].status = <<st_read.wait_status[ch]>>
                     /\ st_wait[k].time_ms = <<Corrected(countdown[ch], calib_factor)>>
                     /\ st_wait[k].repeats = 1
                     /\ (st_wait[k].pulse # NoClause) <=> (ch \in DOMAIN st_src.wait_pulse)

(***************************************************************************)
(* C16: a calibration run of any method (v1, v1.1, v2, v2_improved) that   *)
(* obtains fewer than 2 valid sample pairs for the fit ends with an error, *)
(* and no calibration record is written for the device.                    *)
(***************************************************************************)
C16_TooFewSamples ==
    (/\ calpc = "done"
     /\ returned.source = "new"
     /\ calib_call.method \in {"v1", "v1.1", "v2", "v2_improved"}
     /\ measurements < 2) =>
        (returned.err # None /\ db = db_before)

(***************************************************************************)
(* C17: in every calibration by method v2 or v2_improved that reaches its  *)
(* fit, the sample pairs given to the least-squares fit are the received   *)
(* samples without the first one (the t=0 sample).                         *)
(***************************************************************************)
C17_FirstSampleExcluded ==
    (/\ calpc = "done"
     /\ returned.source = "new"
     /\ calib_call.method \in {"v2", "v2_improved"}
     /\ returned.err = None) =>
        fitted = 2..measurements

\* the line GeneratePatternCommands is to emit for a pattern
IsPatternLine(cmd, k, n, p) ==
    LET entries == p.pattern
        some_pulse == \E e \in 1..Len(entries) :
                          Len(entries[e]) = 4 /\ (entries[e][3] # 0 \/ entries[e][4] # 0)
    IN /\ cmd.pattern = k
       /\ cmd.ch = n
       /\ cmd.status = [e \in 1..Len(entries) |-> entries[e][1]]
       /\ cmd.time_ms = [e \in 1..Len(entries) |-> entries[e][2]]
       /\ cmd.repeats = p.repeats
       /\ IF some_pulse
          THEN cmd.pulse = [e \in 1..Len(entries) |-> <<entries[e][3], entries[e][4]>>]
          ELSE cmd.pulse = NoClause

\* the lines emitted for pattern k of channel n
LinesOf(k, n) == { j \in 1..Len(cmd_lines) : cmd_lines[j].pattern = k /\ cmd_lines[j].ch = n }

\* every status and every time of the pattern is 0
AllZeroPattern(p) == \A e \in 1..Len(p.pattern) : p.pattern[e][1] = 0 /\ p.pattern[e][2] = 0

(***************************************************************************)
(* C18 as stated: for the compressed pattern at position k (from 1) of     *)
(* channel n, GeneratePatternCommands emits the single line PATTERN:k;     *)
(* CH:n;STATUS:..;TIME_MS:..;REPEATS:r, with a PULSE clause of one item    *)
(* per entry if and only if some entry has a non-zero period or            *)
(* pulse_width.                                                            *)
(***************************************************************************)
C18_EveryPatternOneLine ==
    cstep = "generated" =>
        \A n \in 1..Len(compressed.patterns) :
            \A k \in 1..Len(compressed.patterns[n]) :
                /\ Cardinality(LinesOf(k, n)) = 1
                /\ \A j \in LinesOf(k, n) :
                       IsPatternLine(cmd_lines[j], k, n, compressed.patterns[n][k])

(***************************************************************************)
(* C18, amended: the same for every pattern with some non-zero status or   *)
(* time; a pattern whose statuses and times are all 0 has no line, and the *)
(* positions of the other patterns count it.                               *)
(***************************************************************************)
C18_NonZeroPatternOneLine ==
    cstep = "generated" =>
        \A n \in 1..Len(compressed.patterns) :
            \A k \in 1..Len(compressed.patterns[n]) :
                IF AllZeroPattern(compressed.patterns[n][k])
                THEN LinesOf(k, n) = {}
                ELSE /\ Cardinality(LinesOf(k, n)) = 1
                     /\ \A j \in LinesOf(k, n) :
                            IsPatternLine(cmd_lines[j], k, n, compressed.patterns[n][k])

\* a channel whose second pattern is all zero and whose third has no pulse
\* although the channel has period and pulse_width columns
C18_Witness ==
    /\ cstep = "generated"
    /\ Len(compressed.patterns) = 1
    /\ Len(compressed.patterns[1]) = 3
    /\ compressed.patterns[1][1].pattern[1] = <<1, 1000, 100, 10>>
    /\ compressed.patterns[1][1].repeats = 2
    /\ AllZeroPattern(compressed.patterns[1][2])
    /\ compressed.patterns[1][3].pattern[1] = <<0, 1000, 0, 0>>
    /\ Len(cmd_lines) = 2
    /\ cmd_lines[1].pulse # NoClause
    /\ cmd_lines[2].pattern = 3
    /\ cmd_lines[2].pulse = NoClause

(***************************************************************************)
(* C19: idempotence.  For every table and pattern length, compressing the  *)
(* expansion of the output of FindRepeatedPatterns again with the same     *)
(* pattern length returns the same list of (pattern, repeats) pairs.       *)
(***************************************************************************)
C19_Idempotent ==
    cstep = "recompressed" => recompressed = compressed

\* a list folded into a pattern with repeats > 1 followed by others
C19_Witness ==
    /\ cstep = "recompressed"
    /\ ~recompressed.err
    /\ pattern_length = 2
    /\ Len(recompressed.patterns[1]) >= 3
    /\ recompressed.patterns[1][1].repeats = 3
    /\ Len(recompressed.patterns[1][Len(recompressed.patterns[1])].pattern) = 1

(***************************************************************************)
(* C20: single-flight calibration.  At no time are two calibration runs in *)
(* progress on the same serial connection: a second call cannot begin its  *)
(* device exchange while an earlier run on the device has not finished.    *)
(***************************************************************************)
C20_SingleFlight ==
    \A c1 \in DOMAIN call_pc : \A c2 \in DOMAIN call_pc :
        (call_pc[c1] = "exchange" /\ call_pc[c2] = "exchange") => c1 = c2

\* the consecutive windows t[0:L], t[L:2L], ... of a list, the last one
\* possibly shorter than L
Windows(t, L) ==
    [w \in 1..((Len(t) + L - 1) \div L) |-> Slice(t, (w - 1) * L, w * L)]

\* the run-length encoding of a list of windows: one pattern for each
\* maximal run of equal full windows
RECURSIVE RunLengths(_, _)
RunLengths(ws, L) ==
    IF ws = <<>> THEN <<>>
    ELSE LET rest == RunLengths(Tail(ws), L)
         IN IF rest # <<>> /\ Len(Head(ws)) = L /\ rest[1].pattern = Head(ws)
            THEN <<[pattern |-> Head(ws), repeats |-> rest[1].repeats + 1]>> \o Tail(rest)
            ELSE <<[pattern |-> Head(ws), repeats |-> 1]>> \o rest

(***************************************************************************)
(* C24: FindRepeatedPatterns(t, L) is the run-length encoding of the       *)
(* consecutive windows t[0:L], t[L:2L], ... of each channel: one pattern   *)
(* for each maximal run of equal full windows, with repeats the length of  *)
(* the run, so no two consecutive patterns are equal, and a window shorter *)
(* than L appears only as the last pattern, with repeats = 1.              *)
(***************************************************************************)
C24_RunLengthEncoding ==
    (cstep = "compressed" /\ ~compressed.err) =>
        \A n \in 1..Len(df_ms) :
            LET ps == compressed.patterns[n]
            IN /\ ps = RunLengths(Windows(df_ms[n], pattern_length), pattern_length)
               /\ \A k \in 1..(Len(ps) - 1) : ps[k].pattern # ps[k + 1].pattern
               /\ \A k \in 1..Len(ps) :
                      Len(ps[k].pattern) < pattern_length => (k = Len(ps) /\ ps[k].repeats = 1)

\* two runs of full windows, the second of one window equal to none of its
\* neighbours, then a shorter last window
C24_Witness ==
    /\ cstep = "compressed"
    /\ ~compressed.err
    /\ pattern_length = 2
    /\ Len(df_ms) = 1
    /\ Len(df_ms[1]) = 9
    /\ Len(compressed.patterns[1]) = 3
    /\ compressed.patterns[1][1].repeats = 3
    /\ compressed.patterns[1][2].repeats = 1
    /\ Len(compressed.patterns[1][3].pattern) = 1

\* the <<position, channel>> pairs of the patterns that are not all zero,
\* channel by channel, in the order of each compressed list
NonZeroPatterns(compressed_patterns) ==
    Concat([n \in 1..Len(compressed_patterns) |->
        SelectSeq([k \in 1..Len(compressed_patterns[n]) |-> <<k, n>>],
                  LAMBDA id : ~AllZeroPattern(compressed_patterns[n][id[1]]))])

(***************************************************************************)
(* C27: GeneratePatternCommands emits a line for a compressed pattern if   *)
(* and only if not all of the pattern's status values and time values are  *)
(* zero; the lines of the patterns emitted follow the order of the         *)
(* compressed list, channel by channel.                                    *)
(***************************************************************************)
C27_SkipsOnlyAllZero ==
    cstep = "generated" =>
        [j \in 1..Len(cmd_lines) |-> <<cmd_lines[j].pattern, cmd_lines[j].ch>>]
            = NonZeroPatterns(compressed.patterns)

\* two channels: the first with a pattern of status 0 and a non-zero time
\* that is emitted and an all-zero pattern that is not
C27_Witness ==
    /\ cstep = "generated"
    /\ Len(compressed.patterns) = 2
    /\ \E k \in 1..Len(compressed.patterns[1]) :
           /\ ~AllZeroPattern(compressed.patterns[1][k])
           /\ \A e \in 1..Len(compressed.patterns[1][k].pattern) :
                  compressed.patterns[1][k].pattern[e][1] = 0
    /\ \E k \in 1..Len(compressed.patterns[1]) : AllZeroPattern(compressed.patterns[1][k])
    /\ Len(cmd_lines) < Len(compressed.patterns[1]) + Len(compressed.patterns[2])
    /\ cmd_lines[Len(cmd_lines)].ch = 2

\* the multiplier of a time-unit suffix, by the family of its spelling
C23_Multiplier(u) ==
    IF u \in {"ms", "msec", "millisecond", "milliseconds"} THEN 1
    ELSE IF u \in {"s", "sec", "second", "seconds"} THEN 1000
    ELSE IF u \in {"m", "min", "minute", "minutes"} THEN 60000
    ELSE 3600000

(***************************************************************************)
(* C23: unit normalisation.  For every channel n and every recognised      *)
(* time-unit suffix u, a column CH{n}_T_{u} becomes the column             *)
(* CH{n}_period with its values multiplied by the multiplier of u (ms 1,   *)
(* s 1000, min 60000, hr 3600000), and a table with a column CH{n}_t or    *)
(* CH{n}_t_{u} makes the normalisation raise an error.                     *)
(***************************************************************************)
C23_UnitNormalisation ==
    upc # "start" =>
        \A k \in 1..Len(unit_df.cols) :
            LET col == unit_df.cols[k]
            IN /\ (col.ch > 0 /\ col.name = "T" /\ col.unit \in time_units) =>
                      (upc = "done" =>
                          /\ unit_out.cols[k] = Column(col.ch, "period", "")
                          /\ \A r \in 1..Len(unit_df.rows) :
                                 unit_out.rows[r][k] = Rat(unit_df.rows[r][k].n * C23_Multiplier(col.unit),
                                                           unit_df.rows[r][k].d))
               /\ (col.ch > 0 /\ col.name = "t" /\ col.unit \in time_units \cup {""}) =>
                      (upc = "raised" /\ renamed.err = "ValueError")

C23_Witness ==
    /\ upc = "done"
    /\ Len(unit_df.cols) = 7
    /\ unit_df.cols[7] = Column(2, "T", "hr")
    /\ unit_df.rows[1][7] = Rat(3, 2)
    /\ unit_out.cols[7] = Column(2, "period", "")
    /\ unit_out.rows[1][7] = Rat(3 * 3600000, 2)

\* the values of column c of a table, as the integers of the returned table
TimelineColumn(df, c) == [r \in 1..Len(df.rows) |-> ToInt(NaNToZero(df.rows[r][ColIdx(df.cols, c)]))]

(***************************************************************************)
(* C25: per-channel timeline.  For every accepted table with N >= 2        *)
(* channels, whatever the encoding of the pulse parameters, the table      *)
(* ConvertTimeToMillisecond returns has for each channel i a column        *)
(* CH{i}_time_ms holding channel i's elapsed times multiplied by channel   *)
(* i's own unit multiplier, and, when the table has pulse parameters,      *)
(* columns CH{i}_period and CH{i}_pulse_width holding channel i's resolved *)
(* pulse values.                                                           *)
(***************************************************************************)
C25_PerChannelTimeline ==
    (ppc = "done" /\ Len(ch_units) >= 2) =>
        \A i \in 1..Len(ch_units) :
            LET time_in == Column(i, "time", ch_units[i])
                time_ms == Column(i, "time_ms", "")
                period == Column(i, "period", "")
                pulse_width == Column(i, "pulse_width", "")
            IN /\ HasCol(converted.cols, time_ms)
               /\ \A r \in 1..Len(protocol_df.rows) :
                      converted.rows[r][ColIdx(converted.cols, time_ms)] =
                          Num(ToInt(NaNToZero(Scale(protocol_df.rows[r][ColIdx(protocol_df.cols, time_in)],
                                                    TimeMultiplier(ch_units[i])))))
               /\ HasCol(resolved.cols, period) =>
                      /\ HasCol(converted.cols, period)
                      /\ HasCol(converted.cols, pulse_width)
                      /\ TimelineColumn(converted, period) = TimelineColumn(resolved, period)
                      /\ TimelineColumn(converted, pulse_width) = TimelineColumn(resolved, pulse_width)

\* the record of the connected board the call found in the database file
C28_StoredRecord == load_calibration_database(db_file_before, db_before)[unique_id]

\* no device calibration and no database write
C28_Untouched == sample_i = 0 /\ measurements = 0 /\ db = db_before

\* a new calibration was run, and its result stored when it returned one
C28_NewCalibration ==
    /\ returned.source = "new"
    /\ returned.err = None =>
           db[unique_id] = Record("parsed", 0, returned.calib_factor, calib_call.method)

(***************************************************************************)
(* C28: in auto_calibrate_arduino with force_recalibrate = False and a     *)
(* stored record of the connected board that is at most 90 days old, an    *)
(* accepting answer returns the stored factor with no device calibration   *)
(* and no database write, the answer n or no returns the factor 1.0 with   *)
(* no device calibration and no database write, and the answer recalibrate *)
(* or r, like force_recalibrate = True, a missing record or a record older *)
(* than 90 days, runs a new calibration and stores its result.             *)
(***************************************************************************)
C28_PromptOutcomes ==
    calpc = "done" =>
        LET record == C28_StoredRecord
            missing == record = NoRecord
            expired == ~missing /\ record.timestamp = "parsed"
                           /\ record.age > ExpiryDays * HalfDaysPerDay
            valid == ~missing /\ record.timestamp = "parsed" /\ ~expired
        IN /\ (~calib_call.force_recalibrate /\ valid) =>
                  IF calib_call.response \in {"recalibrate", "r"} THEN C28_NewCalibration
                  ELSE IF calib_call.response \in {"n", "no"}
                  THEN returned = Returned(None, Rat(1, 1), "default") /\ C28_Untouched
                  ELSE returned = Returned(None, record.calib_factor, "stored") /\ C28_Untouched
           /\ (calib_call.force_recalibrate \/ missing \/ expired) => C28_NewCalibration

\* a calibration run that returned a factor it measured
C29_SuccessfulRun == calpc = "done" /\ returned.source = "new" /\ returned.err = None

\* the run wrote the record of the connected board
C29_RecordWritten ==
    db[unique_id] = Record("parsed", 0, returned.calib_factor, calib_call.method)

C30_WithFileFactor == [parser EXCEPT !.calib_factor = protocol_file.calib_factor]

(***************************************************************************)
(* C30: when the protocol file supplies a calibration factor, calibrate()  *)
(* never calls auto_calibrate_arduino (no device calibration exchange, no  *)
(* database look-up or write), and the pattern commands and the wait       *)
(* commands are those corrected with the file's factor;                    *)
(* auto_calibrate_arduino is called only when the file supplies none.      *)
(***************************************************************************)
C30_FileFactorWins ==
    (pc # "idle" /\ protocol_file.calib_factor # NoFactor) =>
        /\ parser.auto_calibrations = 0
        /\ "patterns" \in generated =>
               /\ parser.calib_factor = protocol_file.calib_factor
               /\ parser.cmd_patterns = CompileCommands(C30_WithFileFactor, protocol_file).commands
        /\ "wait" \in generated =>
               parser.cmd_wait =
                   GenerateWaitCommands(protocol_file.wait_status,
                                        CorrectTime_dict(CountDown(protocol_file.start_time),
                                                         protocol_file.calib_factor),
                                        protocol_file.valid_channels, <<>>)

C30_Witness ==
    /\ pc = "terminated"
    /\ raised = None
    /\ protocol_file.calib_factor = Rat(1001, 1000)
    /\ arduino.calibration.err = None
    /\ parser.auto_calibrations = 0
    /\ Len(CommandsWritten) = 2
    /\ CommandsWritten[1].cmd.time_ms = <<999, 999>>
    /\ CommandsWritten[2].cmd.pattern = 0
    /\ CommandsWritten[2].cmd.time_ms = <<4995>>

\* the parser's fields with the caller's factor c as the factor in use
C21_WithCallerFactor == [pv_parser EXCEPT !.calib_factor = pv_factor]

\* the file parses and its commands can be generated with the factor c
C21_Previewable ==
    /\ ~pv_file.parse_raises
    /\ CompileCommands(C21_WithCallerFactor, pv_file).err = None
    /\ ~GenerateWaitCommandsRaises(pv_file.wait_status, pv_file.valid_channels, <<>>)

(***************************************************************************)
(* C21: preview_only(calib_factor = c) completes without a hardware        *)
(* connection and leaves the pattern commands and the wait commands        *)
(* corrected by the factor c the caller passed, for a protocol file with   *)
(* an embedded calibration factor as for one without.                      *)
(***************************************************************************)
C21_PreviewUsesCallerFactor ==
    (pvpc \in {"raised", "done"} /\ C21_Previewable) =>
        /\ pvpc = "done"
        /\ pv_parser.cmd_patterns = CompileCommands(C21_WithCallerFactor, pv_file).commands
        /\ pv_parser.cmd_wait =
               GenerateWaitCommands(pv_file.wait_status,
                                    CorrectTime_dict(CountDown(pv_file.start_time), pv_factor),
                                    pv_file.valid_channels, <<>>)

(***************************************************************************)
(* C22: send_commands returns True only if every pattern command and every *)
(* wait command was echoed back unchanged by the device within the         *)
(* time-out, and it returns False when no serial connection is             *)
(* established.                                                            *)
(***************************************************************************)
C22_TrueOnlyIfAllEchoed ==
    sndpc = "returned" =>
        /\ snd_result = "True" =>
               /\ Len(snd_feedback) = Len(send_commands(snd_parser))
               /\ \A k \in 1..Len(snd_feedback) : snd_feedback[k] = "echo"
        /\ ~snd_parser.ser => snd_result = "False"

(***************************************************************************)
(* C26: SendGreeting always terminates.  Whatever lines the device sends,  *)
(* a continuing stream of unexpected or empty lines included, the call     *)
(* eventually returns the configuration of a Salve reply or raises.        *)
(***************************************************************************)
C26_GreetingTerminates == <>(gpc \in {"returned", "raised"})

====
